---- MODULE Spec2Model ----
(***************************************************************************)
(* blstoise: pairing, point (de)serialization, BLS verification and        *)
(* witness residues on a BLS12 curve.                                      *)
(*                                                                         *)
(* The library computes on 381-bit integers.  The model keeps every        *)
(* formula of the source and instantiates the curve parameters with a      *)
(* curve of the same shape whose numbers fit the model checker's integers: *)
(*   E  : y^2 = x^3 + 4         over Fq,   q = 62731 (q = 3 mod 8),        *)
(*   E' : y^2 = x^3 + 4(1 + u)  over Fq2 = Fq[u]/(u^2 + 1),                *)
(*   Fq6 = Fq2[v]/(v^3 - (1 + u)),  Fq12 = Fq6[w]/(w^2 - v),               *)
(*   r = 13 divides #E(Fq) = 3 * 13 * 1609 exactly once, has embedding     *)
(*   degree 12 and divides q^12 - 1 exactly once; X = -14480 is negative,  *)
(*   1 - X kills the G1 cofactor, and 3 divides q^12 - 1 exactly 3 times.  *)
(* A coordinate is serialized in CoordBytes = 3 bytes (48 in the source):  *)
(* three flag bits followed by the big-endian coordinate.                  *)
(*                                                                         *)
(* An exception of the source is modelled by a result that says so: the    *)
(* field inverses return the marker -1 (in the shape of the field) when    *)
(* the source throws 'Inversion of zero', the point operations hand the    *)
(* marker on, and an operation of the interface returns a record           *)
(* [kind |-> "ok", val |-> v] or [kind |-> "error", error |-> message].    *)
(*                                                                         *)
(* The source language evaluates the arguments of a call before the call   *)
(* and a loop's variables in every iteration.  The guard v = v of a        *)
(* one-armed CASE (always true) makes the evaluation of v happen at that   *)
(* place here too, instead of being deferred into the use of v.            *)
(*                                                                         *)
(* A method of the source that binds an intermediate result to a const and *)
(* uses it several times is written as the operator of its name and        *)
(* auxiliary operators (...With..., ...Of, ...Next) that take the          *)
(* intermediate result as a parameter: the method's text up to the const   *)
(* is the caller, the text after it the auxiliary operator.  A loop with   *)
(* many iterations is run on halves of its range (...Steps), which keeps   *)
(* the depth of the evaluation logarithmic in the number of iterations.    *)
(***************************************************************************)
EXTENDS Integers, Sequences, FiniteSets, TLC

\* The curve parameter, the group order and the field modulus.
X == -14480
R == 13
Q == 62731

abs(n) == IF n < 0 THEN -n ELSE n

\* The remainder operator of the source language: the sign of the dividend.
rem(n, m) == IF n < 0 THEN -((-n) % m) ELSE n % m

\* A mod that keeps the sign of the dividend: without the second reduction.
modOfDividend(n, m) == rem(n, m)

mod(n, m) == rem(rem(n, m) + m, m)

modp(n) == mod(n, Q)

\* x * y (mod Q) for 0 <= x, y < Q.  The product is formed in two limbs of
\* y so that no intermediate value leaves the 32-bit integers.
mulmodp(x, y) == (((x * (y \div 256)) % Q) * 256 + x * (y % 256)) % Q

RECURSIVE gcdLoop(_, _, _, _)
gcdLoop(t, r, newt, newr) ==
    IF newr # 0
    THEN LET quotient == r \div newr
             t1 == t - quotient * newt
             r1 == r - quotient * newr
         IN CASE t1 = t1 /\ r1 = r1 -> gcdLoop(newt, newr, t1, r1)
    ELSE <<t, r>>

gcd(value, modulus) ==
    LET st == gcdLoop(0, modulus, 1, value)
        t == st[1]
        r == st[2]
    IN IF r > 1 THEN -1
       ELSE IF t < 0 THEN t + modulus ELSE t

(***************************************************************************)
(* Fq: an integer in 0 .. Q-1.                                             *)
(***************************************************************************)
Fq(x) ==
    CASE x = x -> mod(x, Q)

FqAdd(a, b) == Fq(a + b)

FqSub(a, b) == Fq(a - b)

FqNeg(a) == Fq(-a)

FqMul(a, b) == mulmodp(a, b)

FqMulByScalar(a, c) == mulmodp(a, Fq(c))

FqLt(a, b) == a < b

\* -1 stands for the thrown 'Inversion of zero'.
FqInv(a) == IF a = 0 THEN -1 ELSE Fq(gcd(a, Q))

RECURSIVE FqExpLoop(_, _, _)
FqExpLoop(x, result, y) ==
    IF y > 0
    THEN LET result1 == IF y % 2 = 1 THEN FqMul(result, x) ELSE result
             x1 == FqMul(x, x)
         IN CASE result1 = result1 /\ x1 = x1 -> FqExpLoop(x1, result1, y \div 2)
    ELSE result

FqExp(a, y) == FqExpLoop(a, Fq(1), y)

\* -1 stands for the thrown 'No square root exists'.
FqSqrt(a) ==
    LET root == FqExp(a, (Q + 1) \div 4)
    IN IF FqMul(root, root) # a THEN -1 ELSE root

FqSignBigEndian(a) == FqLt(a, FqNeg(a))

(***************************************************************************)
(* Fq2: <<x, y>> is x + y u.                                               *)
(***************************************************************************)
Fq2fromTuple(u0, u1) == <<Fq(u0), Fq(u1)>>

Fq2Zero == <<0, 0>>

Fq2One == <<1, 0>>

Fq2Threw(a) == a[1] = -1

Fq2Gt(a, b) == a[1] > b[1] /\ a[2] > b[2]

Fq2Lt(a, b) == a[1] < b[1] /\ a[2] < b[2]

Fq2Add(a, b) ==
    CASE a = a /\ b = b -> <<FqAdd(a[1], b[1]), FqAdd(a[2], b[2])>>

Fq2Sub(a, b) ==
    CASE a = a /\ b = b -> <<FqSub(a[1], b[1]), FqSub(a[2], b[2])>>

Fq2Neg(a) ==
    CASE a = a -> <<FqNeg(a[1]), FqNeg(a[2])>>

Fq2Mul(a, b) ==
    CASE a = a /\ b = b ->
         <<FqSub(FqMul(a[1], b[1]), FqMul(a[2], b[2])),
           FqAdd(FqMul(a[2], b[1]), FqMul(a[1], b[2]))>>

Fq2MulByScalar(a, c) == Fq2Mul(a, Fq2fromTuple(c, 0))

\* The product by u, not by the non-residue 1 + u.
Fq2MulByU(a) == <<FqNeg(a[2]), a[1]>>

Fq2MulByNonResidue(a) ==
    CASE a = a -> <<FqSub(a[1], a[2]), FqAdd(a[1], a[2])>>

\* An inverse without the conjugate: the sign of the second coordinate is
\* not changed.
Fq2InvNoConjugate(a, factor) ==
    CASE factor = factor ->
         IF factor = -1 THEN <<-1, -1>>
         ELSE <<FqMul(a[1], factor), FqMul(a[2], factor)>>

\* factor is the inverse of the norm of a.
Fq2InvWithFactor(a, factor) ==
    CASE factor = factor ->
         IF factor = -1 THEN <<-1, -1>>
         ELSE <<FqMul(a[1], factor), FqMul(FqNeg(a[2]), factor)>>

Fq2Inv(a) ==
    CASE a = a ->
         Fq2InvWithFactor(a, FqInv(FqAdd(FqMul(a[1], a[1]), FqMul(a[2], a[2]))))

RECURSIVE Fq2ExpLoop(_, _, _)
Fq2ExpLoop(x, result, y) ==
    IF y > 0
    THEN LET result1 == IF y % 2 = 1 THEN Fq2Mul(result, x) ELSE result
             x1 == Fq2Mul(x, x)
         IN CASE result1 = result1 /\ x1 = x1 -> Fq2ExpLoop(x1, result1, y \div 2)
    ELSE result

Fq2Exp(a, y) == Fq2ExpLoop(a, Fq2One, y)

\* (1 + u)^((Q^2 * k) / 8) for k = 0 .. 7, the values the static table holds.
EIGHTH_ROOTS_OF_UNITY ==
    << <<1, 0>>, <<5513, 57218>>, <<0, 1>>, <<5513, 5513>>,
       <<62730, 0>>, <<57218, 5513>>, <<0, 62730>>, <<57218, 57218>> >>

\* The entries of even index 0, 2, 4, 6.
EVEN_EIGHT_ROOTS_OF_UNITY == [i \in 1..4 |-> EIGHTH_ROOTS_OF_UNITY[2 * i - 1]]

\* (Q^2 + 8) / 16, the exponent of the candidate square root.
SqrtExponent == 245948648

\* <<-1, -1>> stands for the thrown 'Inversion of zero' (the square root of
\* zero inverts zero), <<-2, -2>> for 'No square root exists'.
Fq2Sqrt(value) ==
    LET candidateSquareroot == Fq2Exp(value, SqrtExponent)
        invValue == Fq2Inv(value)
        check == Fq2Mul(Fq2Mul(candidateSquareroot, candidateSquareroot), invValue)
        found == {i \in 1..4 : EVEN_EIGHT_ROOTS_OF_UNITY[i] = check}
        rootIdx == CHOOSE i \in found : \A j \in found : i <= j
        root == EIGHTH_ROOTS_OF_UNITY[rootIdx]
        x1 == Fq2Mul(candidateSquareroot, Fq2Inv(root))
        x2 == Fq2Neg(x1)
    IN IF Fq2Threw(invValue) THEN <<-1, -1>>
       ELSE IF found = {} THEN <<-2, -2>>
       ELSE IF Fq2Gt(x1, x2) THEN x1 ELSE x2

Fq2SignBigEndian(a) == Fq2Lt(a, Fq2Neg(a))

(***************************************************************************)
(* G1: a point is <<x, y>> over Fq, the identity is <<0, 0>>.              *)
(* <<-1, -1>> is the marker of an operation that threw.                    *)
(***************************************************************************)
G1generator == <<2867, 27198>>

G1infinity == <<Fq(0), Fq(0)>>

G1Threw(p) == p[1] = -1

G1equals(p, rhs) == p[1] = rhs[1] /\ p[2] = rhs[2]

\* The point of the line of slope k through <<x1, y1>> whose x is
\* k^2 - x1 - x2.
G1WithSlope(x1, y1, x2, k) ==
    CASE k = k ->
         LET x == FqSub(FqSub(FqMul(k, k), x1), x2)
         IN <<x, FqSub(FqMul(k, FqSub(x1, x)), y1)>>

\* i is the inverse of 2 * y1.
G1doubleWithInv(x1, y1, i) ==
    CASE i = i ->
         IF i = -1 THEN <<-1, -1>>
         ELSE G1WithSlope(x1, y1, x1, FqMul(FqMulByScalar(FqMul(x1, x1), 3), i))

G1double(p) ==
    IF G1equals(p, G1infinity) THEN p
    ELSE G1doubleWithInv(p[1], p[2], FqInv(FqMulByScalar(p[2], 2)))

\* i is the inverse of x2 - x1.
G1addWithInv(x1, y1, x2, y2, i) ==
    CASE i = i ->
         IF i = -1 THEN <<-1, -1>>
         ELSE G1WithSlope(x1, y1, x2, FqMul(FqSub(y2, y1), i))

\* An add that takes equal points for opposite ones: without the doubling case.
G1addChord(p, rhs) ==
    IF G1equals(p, G1infinity) THEN rhs
    ELSE IF G1equals(rhs, G1infinity) THEN p
    ELSE IF p[1] = rhs[1] THEN G1infinity
    ELSE G1addWithInv(p[1], p[2], rhs[1], rhs[2], FqInv(FqSub(rhs[1], p[1])))

G1add(p, rhs) ==
    IF G1equals(p, G1infinity) THEN rhs
    ELSE IF G1equals(rhs, G1infinity) THEN p
    ELSE IF p[1] = rhs[1] /\ p[2] = rhs[2] THEN G1double(p)
    ELSE IF p[1] = rhs[1] /\ p[2] # rhs[2] THEN G1infinity
    ELSE G1addWithInv(p[1], p[2], rhs[1], rhs[2], FqInv(FqSub(rhs[1], p[1])))

G1neg(p) == <<p[1], FqNeg(p[2])>>

\* The double-and-add loop; a throwing add or double ends the whole call.
RECURSIVE G1mulLoop(_, _, _)
\* The end of an iteration: acc1 and base1 are the new acc and base.
G1mulNext(acc1, base1, c) ==
    CASE acc1 = acc1 /\ base1 = base1 ->
         IF G1Threw(acc1) \/ G1Threw(base1) THEN <<-1, -1>>
         ELSE G1mulLoop(base1, acc1, c \div 2)

G1mulLoop(base, acc, c) ==
    IF c > 0
    THEN G1mulNext(IF rem(c, 2) = 1 THEN G1add(acc, base) ELSE acc, G1double(base), c)
    ELSE acc

G1mul(p, c) ==
    IF c = 0 THEN G1infinity
    ELSE IF c = 1 THEN p
    ELSE G1mulLoop(p, G1infinity, c)

G1isOnCurve(p) ==
    IF G1equals(p, G1infinity) THEN FALSE
    ELSE FqMul(p[2], p[2]) = FqAdd(FqMul(FqMul(p[1], p[1]), p[1]), Fq(4))

\* isInSubgroup is this.mul(R).equals(infinity); G1mul(p, R) may have thrown.
G1isInSubgroup(p) == G1equals(G1mul(p, R), G1infinity)

(***************************************************************************)
(* G2: a point is <<x, y>> over Fq2, the identity is <<Fq2Zero, Fq2Zero>>. *)
(* <<<<-1, -1>>, <<-1, -1>>>> is the marker of an operation that threw.    *)
(***************************************************************************)
G2generator == << <<35020, 9712>>, <<35752, 38932>> >>

G2infinity == <<Fq2Zero, Fq2Zero>>

G2Error == << <<-1, -1>>, <<-1, -1>> >>

G2Threw(p) == p[1][1] = -1

G2equals(p, rhs) == p[1] = rhs[1] /\ p[2] = rhs[2]

\* The point of the line of slope k through <<x1, y1>> whose x is
\* k^2 - x1 - x2.
G2WithSlope(x1, y1, x2, k) ==
    CASE k = k ->
         LET x == Fq2Sub(Fq2Sub(Fq2Mul(k, k), x1), x2)
         IN <<x, Fq2Sub(Fq2Mul(k, Fq2Sub(x1, x)), y1)>>

\* i is the inverse of 2 * y1.
G2doubleWithInv(x1, y1, i) ==
    CASE i = i ->
         IF Fq2Threw(i) THEN G2Error
         ELSE G2WithSlope(x1, y1, x1, Fq2Mul(Fq2MulByScalar(Fq2Mul(x1, x1), 3), i))

G2double(p) ==
    IF G2equals(p, G2infinity) THEN p
    ELSE G2doubleWithInv(p[1], p[2], Fq2Inv(Fq2MulByScalar(p[2], 2)))

\* i is the inverse of x2 - x1.
G2addWithInv(x1, y1, x2, y2, i) ==
    CASE i = i ->
         IF Fq2Threw(i) THEN G2Error
         ELSE G2WithSlope(x1, y1, x2, Fq2Mul(Fq2Sub(y2, y1), i))

G2add(p, rhs) ==
    IF G2equals(p, G2infinity) THEN rhs
    ELSE IF G2equals(rhs, G2infinity) THEN p
    ELSE IF p[1] = rhs[1] /\ p[2] = rhs[2] THEN G2double(p)
    ELSE IF p[1] = rhs[1] /\ p[2] # rhs[2] THEN G2infinity
    ELSE G2addWithInv(p[1], p[2], rhs[1], rhs[2], Fq2Inv(Fq2Sub(rhs[1], p[1])))

G2neg(p) == <<p[1], Fq2Neg(p[2])>>

RECURSIVE G2mulLoop(_, _, _)
\* The end of an iteration: acc1 and base1 are the new acc and base.
G2mulNext(acc1, base1, c) ==
    CASE acc1 = acc1 /\ base1 = base1 ->
         IF G2Threw(acc1) \/ G2Threw(base1) THEN G2Error
         ELSE G2mulLoop(base1, acc1, c \div 2)

G2mulLoop(base, acc, c) ==
    IF c > 0
    THEN G2mulNext(IF rem(c, 2) = 1 THEN G2add(acc, base) ELSE acc, G2double(base), c)
    ELSE acc

G2mul(p, c) ==
    IF c = 0 THEN G2infinity
    ELSE IF c = 1 THEN p
    ELSE G2mulLoop(p, G2infinity, c)

G2isOnCurve(p) ==
    IF G2equals(p, G2infinity) THEN FALSE
    ELSE Fq2Mul(p[2], p[2]) = Fq2Add(Fq2Mul(Fq2Mul(p[1], p[1]), p[1]), Fq2fromTuple(4, 4))

G2isInSubgroup(p) == G2equals(G2mul(p, R), G2infinity)

(***************************************************************************)
(* Results of the interface.                                               *)
(***************************************************************************)
Ok(v) == [kind |-> "ok", val |-> v]

Error(message) == [kind |-> "error", error |-> message]

(***************************************************************************)
(* Point deserialization.  A buffer is a sequence of bytes 0 .. 255.       *)
(***************************************************************************)
\* The byte length of one serialized coordinate.
CoordBytes == 3

\* new Fq(toBigInt(bytes)): the big-endian value of the bytes, reduced
\* modulo Q; Horner's rule keeps the intermediate values small.
RECURSIVE FqOfBytesFrom(_, _, _)
FqOfBytesFrom(bytes, i, acc) ==
    IF i > Len(bytes) THEN acc
    ELSE CASE acc = acc -> FqOfBytesFrom(bytes, i + 1, Fq(acc * 256 + bytes[i]))

FqOfBytes(bytes) == FqOfBytesFrom(bytes, 1, 0)

\* bytes.slice(from, to), offsets counted from 0.
slice(bytes, from, to) == SubSeq(bytes, from + 1, to)

\* bytes[0] &= 0b00011111: the buffer the caller passed, after the call.
ClearFlags(bytes) == [bytes EXCEPT ![1] = bytes[1] % 32]

\* A mutant of G1recoverY: the y-coordinate is negated when the flag and
\* the sign differ.
G1recoverYXor(x, yIsLexLargest) ==
    LET y == FqSqrt(FqAdd(FqMul(FqMul(x, x), x), Fq(4)))
    IN IF y = -1 THEN -1
       ELSE IF yIsLexLargest # FqSignBigEndian(y) THEN FqNeg(y) ELSE y

\* The y-coordinate of a compressed point: y = sqrt(x^3 + 4), negated if
\* yIsLexLargest === y.signBigEndian(); -1 when the square root threw.
G1recoverY(x, yIsLexLargest) ==
    LET y == FqSqrt(FqAdd(FqMul(FqMul(x, x), x), Fq(4)))
    IN IF y = -1 THEN -1
       ELSE IF yIsLexLargest = FqSignBigEndian(y) THEN FqNeg(y) ELSE y

G1fromBytes(bytes) ==
    LET firstByte == bytes[1]
        isCompressed == (firstByte \div 128) % 2 = 1
        isInfinity == (firstByte \div 64) % 2 = 1
        yIsLexLargest == (firstByte \div 32) % 2 = 1
        cleared == ClearFlags(bytes)
        x == FqOfBytes(cleared)
        y == G1recoverY(x, yIsLexLargest)
    IN IF isCompressed /\ Len(bytes) = CoordBytes
       THEN IF isInfinity
            THEN IF x # Fq(0) THEN Error("Invalid compressed point") ELSE Ok(G1infinity)
            ELSE IF y = -1 THEN Error("No square root exists") ELSE Ok(<<x, y>>)
       ELSE IF ~isCompressed /\ Len(bytes) = 2 * CoordBytes
       THEN Ok(<<FqOfBytes(slice(cleared, 0, CoordBytes)),
                 FqOfBytes(slice(cleared, CoordBytes, 2 * CoordBytes))>>)
       ELSE Error("Invalid point encoding")

\* The y-coordinate of a compressed point of G2; a marker <<-1, -1>> or
\* <<-2, -2>> when the square root threw.
G2recoverY(x, yIsLexLargest) ==
    LET y == Fq2Sqrt(Fq2Add(Fq2Mul(Fq2Mul(x, x), x), Fq2fromTuple(4, 4)))
    IN IF y[1] < 0 THEN y
       ELSE IF yIsLexLargest = Fq2SignBigEndian(y) THEN Fq2Neg(y) ELSE y

G2fromBytes(bytes) ==
    LET firstByte == bytes[1]
        isCompressed == (firstByte \div 128) % 2 = 1
        isInfinity == (firstByte \div 64) % 2 = 1
        yIsLexLargest == (firstByte \div 32) % 2 = 1
        cleared == ClearFlags(bytes)
        whole == FqOfBytes(cleared)
        c1 == slice(cleared, 0, CoordBytes)
        c0 == slice(cleared, CoordBytes, 2 * CoordBytes)
        x == <<FqOfBytes(c0), FqOfBytes(c1)>>
        y == G2recoverY(x, yIsLexLargest)
    IN IF isCompressed /\ Len(bytes) = 2 * CoordBytes
       THEN IF isInfinity
            THEN IF whole # Fq(0) THEN Error("Invalid compressed point") ELSE Ok(G2infinity)
            ELSE IF y = <<-1, -1>> THEN Error("Inversion of zero")
            ELSE IF y = <<-2, -2>> THEN Error("No square root exists")
            ELSE Ok(<<x, y>>)
       ELSE IF ~isCompressed /\ Len(bytes) = 4 * CoordBytes
       THEN Ok(<< <<FqOfBytes(slice(cleared, 0, CoordBytes)),
                    FqOfBytes(slice(cleared, CoordBytes, 2 * CoordBytes))>>,
                  <<FqOfBytes(slice(cleared, 2 * CoordBytes, 3 * CoordBytes)),
                    FqOfBytes(slice(cleared, 3 * CoordBytes, 4 * CoordBytes))>> >>)
       ELSE Error("Invalid point encoding")

(***************************************************************************)
(* Point serialization, as section 6 of the specification lays it out      *)
(* (the library has no encoder): flag bits C, I, S in the top three bits   *)
(* of byte 0, big-endian coordinates, an Fq2 coordinate as (c1, c0).       *)
(***************************************************************************)
toBigEndian(v) == [i \in 1..CoordBytes |-> (v \div (256 ^ (CoordBytes - i))) % 256]

WithFlags(bytes, C, I, S) ==
    [bytes EXCEPT ![1] = bytes[1] + (IF C THEN 128 ELSE 0) + (IF I THEN 64 ELSE 0)
                                  + (IF S THEN 32 ELSE 0)]

\* y is the lexicographically larger of y and -y.
FqLexLargest(y) == y > FqNeg(y)

Fq2LexLargest(y) ==
    y[2] > FqNeg(y[2]) \/ (y[2] = FqNeg(y[2]) /\ y[1] > FqNeg(y[1]))

G1encode(P, compressed) ==
    LET I == P = G1infinity
    IN IF compressed
       THEN WithFlags(toBigEndian(P[1]), TRUE, I, ~I /\ FqLexLargest(P[2]))
       ELSE WithFlags(toBigEndian(P[1]) \o toBigEndian(P[2]), FALSE, I, FALSE)

G2encode(P, compressed) ==
    LET I == P = G2infinity
        x == toBigEndian(P[1][2]) \o toBigEndian(P[1][1])
        y == toBigEndian(P[2][2]) \o toBigEndian(P[2][1])
    IN IF compressed
       THEN WithFlags(x, TRUE, I, ~I /\ Fq2LexLargest(P[2]))
       ELSE WithFlags(x \o y, FALSE, I, FALSE)

(***************************************************************************)
(* Fq6 = Fq2[v]/(v^3 - (1 + u)): an element is <<x, y, z>> over Fq2.       *)
(***************************************************************************)
Fq6fromTuple(x, y, z) == <<x, y, z>>

Fq6fromNumber(n) == <<Fq2fromTuple(n, 0), Fq2Zero, Fq2Zero>>

Fq6Zero == <<Fq2Zero, Fq2Zero, Fq2Zero>>

Fq6One == <<Fq2One, Fq2Zero, Fq2Zero>>

\* The marker of an inverse that threw 'Inversion of zero'.
Fq6Error == << <<-1, -1>>, <<-1, -1>>, <<-1, -1>> >>

Fq6Threw(a) == a[1][1] = -1

Fq6Add(a, rhs) ==
    CASE a = a /\ rhs = rhs -> <<Fq2Add(a[1], rhs[1]), Fq2Add(a[2], rhs[2]), Fq2Add(a[3], rhs[3])>>

Fq6Sub(a, rhs) ==
    CASE a = a /\ rhs = rhs -> <<Fq2Sub(a[1], rhs[1]), Fq2Sub(a[2], rhs[2]), Fq2Sub(a[3], rhs[3])>>

Fq6Neg(a) == Fq6Sub(Fq6Zero, a)

\* z0, z1, z2 of mul from the operands' coefficients and t0, t1, t2.
Fq6MulOf(a0, a1, a2, b0, b1, b2, t0, t1, t2) ==
    CASE t0 = t0 /\ t1 = t1 /\ t2 = t2 ->
         <<Fq2Add(t0, Fq2MulByNonResidue(
               Fq2Sub(Fq2Mul(Fq2Add(a1, a2), Fq2Add(b1, b2)), Fq2Add(t1, t2)))),
           Fq2Add(Fq2Sub(Fq2Mul(Fq2Add(a0, a1), Fq2Add(b0, b1)), Fq2Add(t0, t1)),
                  Fq2MulByNonResidue(t2)),
           Fq2Sub(Fq2Add(t1, Fq2Mul(Fq2Add(a0, a2), Fq2Add(b0, b2))), Fq2Add(t0, t2))>>

Fq6Mul(a, rhs) ==
    CASE a = a /\ rhs = rhs ->
         Fq6MulOf(a[1], a[2], a[3], rhs[1], rhs[2], rhs[3],
                  Fq2Mul(a[1], rhs[1]), Fq2Mul(a[2], rhs[2]), Fq2Mul(a[3], rhs[3]))

Fq6MulByNonResidue(a) ==
    CASE a = a -> <<Fq2MulByNonResidue(a[3]), a[1], a[2]>>

\* The inverse from t0, t1, t2 and factor; Fq6Error when factor threw.
Fq6InvOf(t0, t1, t2, factor) ==
    CASE factor = factor ->
         IF Fq2Threw(factor) THEN Fq6Error
         ELSE <<Fq2Mul(t0, factor), Fq2Mul(t1, factor), Fq2Mul(t2, factor)>>

\* factor of inv from the coefficients and t0, t1, t2.
Fq6InvFactor(a0, a1, a2, t0, t1, t2) ==
    CASE t0 = t0 /\ t1 = t1 /\ t2 = t2 ->
         Fq6InvOf(t0, t1, t2,
                  Fq2Inv(Fq2Add(Fq2Add(Fq2Mul(a0, t0),
                                       Fq2MulByNonResidue(Fq2Mul(a2, t1))),
                                Fq2MulByNonResidue(Fq2Mul(a1, t2)))))

Fq6InvT(a0, a1, a2) ==
    Fq6InvFactor(a0, a1, a2,
                 Fq2Sub(Fq2Mul(a0, a0), Fq2MulByNonResidue(Fq2Mul(a1, a2))),
                 Fq2Sub(Fq2MulByNonResidue(Fq2Mul(a2, a2)), Fq2Mul(a0, a1)),
                 Fq2Sub(Fq2Mul(a1, a1), Fq2Mul(a0, a2)))

Fq6Inv(a) ==
    CASE a = a -> Fq6InvT(a[1], a[2], a[3])

(***************************************************************************)
(* Fq12 = Fq6[w]/(w^2 - v): an element is <<x, y>> over Fq6.               *)
(***************************************************************************)
Fq12fromTuple(x, y) == <<x, y>>

Fq12fromNumber(n) == <<Fq6fromNumber(n), Fq6Zero>>

Fq12Zero == <<Fq6Zero, Fq6Zero>>

Fq12One == <<Fq6One, Fq6Zero>>

Fq12Error == <<Fq6Error, Fq6Error>>

Fq12Threw(a) == a[1][1][1] = -1

Fq12equals(a, rhs) == a[1] = rhs[1] /\ a[2] = rhs[2]

Fq12Add(a, rhs) ==
    CASE a = a /\ rhs = rhs -> <<Fq6Add(a[1], rhs[1]), Fq6Add(a[2], rhs[2])>>

Fq12Sub(a, rhs) ==
    CASE a = a /\ rhs = rhs -> <<Fq6Sub(a[1], rhs[1]), Fq6Sub(a[2], rhs[2])>>

Fq12Neg(a) == Fq12Sub(Fq12Zero, a)

\* x and y of mul from the operands' coefficients and t1, t2.
Fq12MulOf(a0, a1, b0, b1, t1, t2) ==
    CASE t1 = t1 /\ t2 = t2 ->
         <<Fq6Add(t1, Fq6MulByNonResidue(t2)),
           Fq6Sub(Fq6Mul(Fq6Add(a0, a1), Fq6Add(b0, b1)), Fq6Add(t1, t2))>>

Fq12Mul(a, rhs) ==
    CASE a = a /\ rhs = rhs ->
         Fq12MulOf(a[1], a[2], rhs[1], rhs[2], Fq6Mul(a[1], rhs[1]), Fq6Mul(a[2], rhs[2]))

\* The inverse from factor; Fq12Error when factor threw.
Fq12InvOf(a0, a1, factor) ==
    CASE factor = factor ->
         IF Fq6Threw(factor) THEN Fq12Error
         ELSE <<Fq6Mul(a0, factor), Fq6Mul(Fq6Neg(a1), factor)>>

Fq12Inv(a) ==
    CASE a = a ->
         Fq12InvOf(a[1], a[2],
                   Fq6Inv(Fq6Sub(Fq6Mul(a[1], a[1]), Fq6MulByNonResidue(Fq6Mul(a[2], a[2])))))

(***************************************************************************)
(* Exponents.  An exponent of the source is a bigint; here it is the       *)
(* sequence of its bits, least significant first, so that the exponents    *)
(* beyond the range of the model checker's integers can be written down.   *)
(* The loops of exp and finalExp consume one bit per iteration.            *)
(***************************************************************************)
RECURSIVE Bits(_)
Bits(n) == IF n > 0 THEN <<rem(n, 2)>> \o Bits(n \div 2) ELSE <<>>

\* Iteration k of the loop of exp / finalExp on <<x, result>>: bit k of the
\* exponent y is the least significant bit of what is left of y.
ExpStep(y, st, k) ==
    LET x == st[1]
        result == st[2]
        lsb == y[k]
    IN <<Fq12Mul(x, x), IF lsb = 1 THEN Fq12Mul(result, x) ELSE result>>

RECURSIVE ExpSteps(_, _, _, _)
ExpSteps(y, st, lo, hi) ==
    IF lo > hi THEN st
    ELSE IF lo = hi THEN ExpStep(y, st, lo)
    ELSE LET mid == (lo + hi) \div 2
             left == ExpSteps(y, st, lo, mid)
         IN CASE left = left -> ExpSteps(y, left, mid + 1, hi)

Fq12Exp(a, y) == ExpSteps(y, <<a, Fq12One>>, 1, Len(y))[2]

(***************************************************************************)
(* The pairing.                                                            *)
(***************************************************************************)
\* Lifts a point of the twist to a point over Fq12: <<wideX, wideY>>.
untwist(p) ==
    LET x1 == p[1]
        y1 == p[2]
        root == Fq6fromTuple(Fq2Zero, Fq2One, Fq2Zero)
        wideX == Fq12Mul(Fq12fromTuple(Fq6fromTuple(x1, Fq2Zero, Fq2Zero), Fq6Zero),
                         Fq12Inv(Fq12fromTuple(root, Fq6Zero)))
        wideY == Fq12Mul(Fq12fromTuple(Fq6fromTuple(y1, Fq2Zero, Fq2Zero), Fq6Zero),
                         Fq12Inv(Fq12fromTuple(Fq6Zero, root)))
    IN <<wideX, wideY>>

\* The value at p of the line of the given slope through wideR.
lineDoubleWithSlope(wideR, p, slope) ==
    CASE slope = slope ->
         Fq12Sub(Fq12Sub(Fq12fromNumber(p[2]), Fq12Mul(Fq12fromNumber(p[1]), slope)),
                 Fq12Sub(wideR[2], Fq12Mul(slope, wideR[1])))

\* A tangent with the slope x^2 * 2 / (2 y) instead of x^2 * 3 / (2 y).
lineDoubleSlope2(wideR, p, i) ==
    CASE i = i ->
         IF Fq12Threw(i) THEN Fq12Error
         ELSE lineDoubleWithSlope(wideR, p,
                  Fq12Mul(Fq12Mul(Fq12Mul(wideR[1], wideR[1]), Fq12fromNumber(2)), i))

\* i is the inverse of 2 * wideR.y; Fq12Error when it threw.
lineDoubleWithInv(wideR, p, i) ==
    CASE i = i ->
         IF Fq12Threw(i) THEN Fq12Error
         ELSE lineDoubleWithSlope(wideR, p,
                  Fq12Mul(Fq12Mul(Fq12Mul(wideR[1], wideR[1]), Fq12fromNumber(3)), i))

lineDoubleWide(wideR, p) ==
    CASE wideR = wideR ->
         lineDoubleWithInv(wideR, p, Fq12Inv(Fq12Mul(wideR[2], Fq12fromNumber(2))))

lineDouble(r, p) == lineDoubleWide(untwist(r), p)

\* i is the inverse of wideQ.x - wideR.x; Fq12Error when it threw.
lineAddWithInv(wideR, wideQ, p, i) ==
    CASE i = i ->
         IF Fq12Threw(i) THEN Fq12Error
         ELSE Fq12Sub(Fq12Sub(Fq12fromNumber(p[2]),
                              Fq12Mul(Fq12fromNumber(p[1]),
                                      Fq12Mul(Fq12Sub(wideQ[2], wideR[2]), i))),
                      Fq12Mul(Fq12Sub(Fq12Mul(wideQ[2], wideR[1]), Fq12Mul(wideR[2], wideQ[1])),
                              Fq12Inv(Fq12Sub(wideR[1], wideQ[1]))))

lineAddWide(wideR, wideQ, p) ==
    CASE wideR = wideR /\ wideQ = wideQ ->
         IF Fq12equals(wideR[1], wideQ[1]) /\ Fq12equals(wideR[2], Fq12Neg(wideQ[2]))
         THEN Fq12Sub(Fq12fromNumber(p[1]), wideR[1])
         ELSE lineAddWithInv(wideR, wideQ, p, Fq12Inv(Fq12Sub(wideQ[1], wideR[1])))

lineAdd(r, q, p) == lineAddWide(untwist(r), untwist(q), p)

\* The bits of |X| below the leading one, from the most significant down:
\* iterations[k] is bit Len - k of |X|.
iterations == LET b == Bits(abs(X)) IN [k \in 1..(Len(b) - 1) |-> b[Len(b) - k] = 1]

\* The second half of an iteration whose bit is set: r2 is doubleR + q and
\* la the line through doubleR and q at p.
millerAdd(r, acc1, r2, la) ==
    CASE r2 = r2 /\ la = la ->
         IF G2Threw(r2) \/ Fq12Threw(la) THEN <<Fq12Error, r>>
         ELSE <<Fq12Mul(acc1, la), r2>>

\* The first half of an iteration: doubleR is 2 r and ld the tangent in r at p.
millerDouble(p, q, i, acc, r, doubleR, ld) ==
    CASE doubleR = doubleR /\ ld = ld ->
         IF G2Threw(doubleR) \/ Fq12Threw(ld) THEN <<Fq12Error, r>>
         ELSE IF ~i THEN <<Fq12Mul(Fq12Mul(acc, acc), ld), doubleR>>
         ELSE millerAdd(r, Fq12Mul(Fq12Mul(acc, acc), ld),
                        G2add(doubleR, q), lineAdd(doubleR, q, p))

\* Iteration k of the Miller loop of the points pq = <<p, q>> on <<acc, r>>;
\* <<Fq12Error, r>> as soon as a step threw, and from then on.
millerStep(pq, st, k) ==
    IF Fq12Threw(st[1]) THEN st
    ELSE millerDouble(pq[1], pq[2], iterations[k], st[1], st[2],
                      G2double(st[2]), lineDouble(st[2], pq[1]))

RECURSIVE millerSteps(_, _, _, _)
millerSteps(pq, st, lo, hi) ==
    IF lo > hi THEN st
    ELSE IF lo = hi THEN millerStep(pq, st, lo)
    ELSE LET mid == (lo + hi) \div 2
             left == millerSteps(pq, st, lo, mid)
         IN CASE left = left -> millerSteps(pq, left, mid + 1, hi)

miller(p, q) == millerSteps(<<p, q>>, <<Fq12One, q>>, 1, Len(iterations))[1]

\* (P ** 12n - 1n) / R
FinalExponent ==
    <<
    0, 0, 0, 0, 1, 0, 1, 1, 0, 0, 0, 0, 0, 0, 1, 1, 0, 1, 1, 1, 0, 1, 1, 1, 1, 1, 0, 1, 1, 0, 0, 0,
    0, 1, 1, 0, 0, 0, 0, 1, 0, 1, 0, 0, 1, 1, 1, 0, 0, 0, 0, 0, 1, 0, 1, 1, 1, 1, 1, 0, 1, 0, 1, 0,
    1, 1, 1, 1, 1, 0, 1, 1, 1, 0, 0, 1, 0, 1, 1, 0, 1, 1, 1, 0, 1, 0, 0, 0, 0, 1, 0, 1, 0, 0, 1, 1,
    1, 0, 0, 1, 0, 1, 0, 0, 1, 1, 1, 0, 0, 0, 0, 1, 1, 0, 0, 0, 0, 0, 0, 1, 1, 0, 1, 1, 0, 0, 1, 1,
    0, 0, 0, 1, 0, 0, 0, 1, 0, 0, 0, 1, 0, 1, 0, 0, 0, 0, 1, 1, 1, 0, 0, 0, 0, 1, 1, 1, 1, 1, 0, 0,
    0, 0, 0, 1, 1, 1, 1, 1, 0, 1, 0, 0, 0, 1, 1, 0, 0, 1, 1, 0, 0, 1, 0, 1, 1, 1, 0, 1 >>

\* The loop runs while exp > 1, that is, over every bit but the leading one.
\* The product that ends finalExp, of the loop's variables <<x, result>>.
finalExpOf(st) ==
    CASE st = st -> Fq12Mul(st[1], st[2])

finalExp(a0, exp) == finalExpOf(ExpSteps(exp, <<a0, Fq12One>>, 1, Len(exp) - 1))

\* this.mul(R) of isInSubgroup threw 'Inversion of zero'.
G1isInSubgroupThrew(p) == G1Threw(G1mul(p, R))

G2isInSubgroupThrew(p) == G2Threw(G2mul(p, R))

\* The final exponentiation of the result r of the Miller loop.
pairOf(r) ==
    CASE r = r ->
         IF Fq12Threw(r) THEN Error("Inversion of zero")
         ELSE Ok(finalExp(r, FinalExponent))

\* pair asks isInSubgroup before isOnCurve.
pair(p, q) ==
    IF G1equals(p, G1infinity) \/ G2equals(q, G2infinity) THEN Ok(Fq12One)
    ELSE IF G1isInSubgroupThrew(p) THEN Error("Inversion of zero")
    ELSE IF ~G1isInSubgroup(p) \/ ~G1isOnCurve(p) THEN Error("Invalid point")
    ELSE IF G2isInSubgroupThrew(q) THEN Error("Inversion of zero")
    ELSE IF ~G2isInSubgroup(q) \/ ~G2isOnCurve(q) THEN Error("Invalid point")
    ELSE pairOf(miller(p, q))

\* The loop of validatePairing from pair i on, and the part of iteration i
\* after the Miller loop returned r.  It asks isOnCurve before isInSubgroup,
\* and checks pair i only after the Miller loops of the pairs before it.
RECURSIVE validatePairingLoop(_, _, _, _)
validatePairingMul(result, i, ps, qs, r) ==
    CASE r = r ->
         IF Fq12Threw(r) THEN Error("Inversion of zero")
         ELSE validatePairingLoop(Fq12Mul(result, r), i + 1, ps, qs)

validatePairingLoop(result, i, ps, qs) ==
    CASE result = result ->
         IF i > Len(ps)
         THEN Ok(Fq12equals(finalExp(result, FinalExponent), Fq12One))
         ELSE IF ~G1isOnCurve(ps[i]) THEN Error("Invalid point")
         ELSE IF G1isInSubgroupThrew(ps[i]) THEN Error("Inversion of zero")
         ELSE IF ~G1isInSubgroup(ps[i]) THEN Error("Invalid point")
         ELSE IF ~G2isOnCurve(qs[i]) THEN Error("Invalid point")
         ELSE IF G2isInSubgroupThrew(qs[i]) THEN Error("Inversion of zero")
         ELSE IF ~G2isInSubgroup(qs[i]) THEN Error("Invalid point")
         ELSE validatePairingMul(result, i, ps, qs, miller(ps[i], qs[i]))

validatePairing(ps, qs) ==
    IF Len(ps) # Len(qs) THEN Error("Invalid inputs")
    ELSE validatePairingLoop(Fq12One, 1, ps, qs)

\* A verification that pairs the public key as it is, not its negation.
rawVerifyG1NoNeg(publicKey, signature, hashedMessage) ==
    validatePairing(<<hashedMessage, signature>>, <<publicKey, G2generator>>)

rawVerifyG1(publicKey, signature, hashedMessage) ==
    LET ps == <<hashedMessage, signature>>
        qs == <<G2neg(publicKey), G2generator>>
    IN validatePairing(ps, qs)

(***************************************************************************)
(* The state: one call of the interface at a time.  pc is "idle" before a  *)
(* call, "called" once the caller has passed the arguments, "done" when    *)
(* the operation has returned or thrown.  buf is the caller's byte buffer. *)
(***************************************************************************)
VARIABLES pc, call, ret, buf

vars == <<pc, call, ret, buf>>

NoCall == [op |-> "none"]

NoResult == [kind |-> "none"]

Init == pc = "idle" /\ call = NoCall /\ ret = NoResult /\ buf = <<>>

\* The operation returned to its caller; the next call may begin.
Return ==
    /\ pc = "done"
    /\ pc' = "idle" /\ call' = NoCall /\ ret' = NoResult /\ buf' = <<>>

(***************************************************************************)
(* Inputs of the deserializers.                                            *)
(***************************************************************************)
\* Scalars 1 .. MaxScalar multiply the generators.
MaxScalar == 12

\* On-curve points are searched at x-coordinates 0 .. MaxCoord (G1) and
\* a + b u with a, b in 0 .. MaxCoord2 (G2).
MaxCoord == 12

MaxCoord2 == 3

BOOL == {TRUE, FALSE}

G1Multiples == {G1mul(G1generator, k) : k \in 1..MaxScalar}

G2Multiples == {G2mul(G2generator, k) : k \in 1..MaxScalar}

G1CurvePoints ==
    UNION {LET y == FqSqrt(FqAdd(FqMul(FqMul(x, x), x), Fq(4)))
           IN IF y = -1 THEN {} ELSE {<<x, y>>, <<x, FqNeg(y)>>} : x \in 0..MaxCoord}

G2CurvePoints ==
    UNION {LET x == <<a[1], a[2]>>
               y == Fq2Sqrt(Fq2Add(Fq2Mul(Fq2Mul(x, x), x), Fq2fromTuple(4, 4)))
           IN IF y[1] < 0 THEN {} ELSE {<<x, y>>, <<x, Fq2Neg(y)>>}
           : a \in (0..MaxCoord2) \X (0..MaxCoord2)}

G1Encodable == {G1infinity} \cup G1Multiples \cup G1CurvePoints

G2Encodable == {G2infinity} \cup G2Multiples \cup G2CurvePoints

\* Payloads of forged encodings: zero, small values, the generator's x,
\* the modulus and multiples of it.
ForgedPayloads == {0, 1, G1generator[1], Q, Q + 1, 2 * Q, Q + G1generator[1]}

G1Forged ==
    {WithFlags(toBigEndian(v), C, I, S) : v \in ForgedPayloads, C \in BOOL, I \in BOOL, S \in BOOL}
    \cup {<<128, 0>>, <<0, 0, 0, 0>>}

\* Halves of forged G2 payloads.  The halves (1, 34692) make a buffer whose
\* value 1 * 2^24 + 34692 = 268 * Q is a multiple of Q although neither
\* half is zero.
G2ForgedHalves == {<<0, 0>>, <<0, 1>>, <<0, Q>>, <<Q, 0>>, <<1, 34692>>, <<35020, 9712>>}

G2Forged ==
    {WithFlags(toBigEndian(h[1]) \o toBigEndian(h[2]), C, I, S) :
        h \in G2ForgedHalves, C \in BOOL, I \in BOOL, S \in BOOL}
    \cup {<<128, 0, 0>>}

(***************************************************************************)
(* PointG1.fromBytes and PointG2.fromBytes.                                *)
(***************************************************************************)
\* The caller serializes a point as section 6 lays out and passes the buffer.
G1PassEncoded ==
    /\ pc = "idle"
    /\ \E P \in G1Encodable, compressed \in BOOL :
          /\ call' = [op |-> "G1.fromBytes", bytes |-> G1encode(P, compressed),
                      encoded |-> TRUE, point |-> P, compressed |-> compressed]
          /\ buf' = G1encode(P, compressed)
    /\ pc' = "called" /\ ret' = NoResult

\* The caller passes a buffer of its own making.
G1PassForged ==
    /\ pc = "idle"
    /\ \E bytes \in G1Forged :
          /\ call' = [op |-> "G1.fromBytes", bytes |-> bytes, encoded |-> FALSE]
          /\ buf' = bytes
    /\ pc' = "called" /\ ret' = NoResult

G1Decode ==
    /\ pc = "called" /\ call.op = "G1.fromBytes"
    /\ ret' = G1fromBytes(buf)
    /\ buf' = ClearFlags(buf)
    /\ pc' = "done" /\ call' = call

G2PassEncoded ==
    /\ pc = "idle"
    /\ \E P \in G2Encodable, compressed \in BOOL :
          /\ call' = [op |-> "G2.fromBytes", bytes |-> G2encode(P, compressed),
                      encoded |-> TRUE, point |-> P, compressed |-> compressed]
          /\ buf' = G2encode(P, compressed)
    /\ pc' = "called" /\ ret' = NoResult

G2PassForged ==
    /\ pc = "idle"
    /\ \E bytes \in G2Forged :
          /\ call' = [op |-> "G2.fromBytes", bytes |-> bytes, encoded |-> FALSE]
          /\ buf' = bytes
    /\ pc' = "called" /\ ret' = NoResult

G2Decode ==
    /\ pc = "called" /\ call.op = "G2.fromBytes"
    /\ ret' = G2fromBytes(buf)
    /\ buf' = ClearFlags(buf)
    /\ pc' = "done" /\ call' = call

NextCodec ==
    \/ G1PassEncoded \/ G1PassForged \/ G1Decode
    \/ G2PassEncoded \/ G2PassForged \/ G2Decode
    \/ Return

SpecCodec == Init /\ [][NextCodec]_vars

(***************************************************************************)
(* Properties of the deserializers.                                        *)
(***************************************************************************)
DecodeDone == pc = "done" /\ call.op \in {"G1.fromBytes", "G2.fromBytes"}

\* The flag bits of the buffer that was passed.
FlagC == (call.bytes[1] \div 128) % 2 = 1

FlagI == (call.bytes[1] \div 64) % 2 = 1

FlagS == (call.bytes[1] \div 32) % 2 = 1

\* The buffer that was passed has the length of a compressed point.
CompressedLength ==
    Len(call.bytes) = (IF call.op = "G1.fromBytes" THEN CoordBytes ELSE 2 * CoordBytes)

\* Every bit after the three flag bits is zero.
PayloadZero == \A i \in 1..Len(call.bytes) : ClearFlags(call.bytes)[i] = 0

\* C8: decoding the section-6 encoding of an on-curve point or of the
\* identity, compressed or uncompressed, returns that point.
C8_RoundTrip == (DecodeDone /\ call.encoded) => ret = Ok(call.point)

\* The square root the decoder of a compressed point starts from.
DecodedX ==
    IF call.op = "G1.fromBytes" THEN FqOfBytes(ClearFlags(call.bytes))
    ELSE <<FqOfBytes(slice(ClearFlags(call.bytes), CoordBytes, 2 * CoordBytes)),
           FqOfBytes(slice(ClearFlags(call.bytes), 0, CoordBytes))>>

RootOfDecodedX ==
    IF call.op = "G1.fromBytes"
    THEN FqSqrt(FqAdd(FqMul(FqMul(DecodedX, DecodedX), DecodedX), Fq(4)))
    ELSE Fq2Sqrt(Fq2Add(Fq2Mul(Fq2Mul(DecodedX, DecodedX), DecodedX), Fq2fromTuple(4, 4)))

SignOfRoot ==
    IF call.op = "G1.fromBytes" THEN FqSignBigEndian(RootOfDecodedX)
    ELSE Fq2SignBigEndian(RootOfDecodedX)

NegatedRoot ==
    IF call.op = "G1.fromBytes" THEN FqNeg(RootOfDecodedX) ELSE Fq2Neg(RootOfDecodedX)

\* A compressed encoding that is not of the identity was decoded to a point.
CompressedDecoded ==
    DecodeDone /\ FlagC /\ ~FlagI /\ CompressedLength /\ ret.kind = "ok"

\* C9, as the specification words it: the recovered root is negated exactly
\* when S XOR sign(y).
C9_NegatedWhenFlagXorSign ==
    CompressedDecoded =>
        ret.val[2] = (IF FlagS # SignOfRoot THEN NegatedRoot ELSE RootOfDecodedX)

\* C9, amended: the recovered root y = sqrt(x^3 + b) is negated exactly when
\* the flag S equals y.signBigEndian(), and returned as computed otherwise.
C9_NegatedWhenFlagEqualsSign ==
    CompressedDecoded =>
        ret.val[2] = (IF FlagS = SignOfRoot THEN NegatedRoot ELSE RootOfDecodedX)

\* A compressed G1 encoding whose flag S equals the sign of the recovered
\* root was decoded, and the root was negated.
C9_Witness ==
    /\ CompressedDecoded /\ call.op = "G1.fromBytes"
    /\ FlagS = SignOfRoot /\ ret.val[2] = NegatedRoot /\ NegatedRoot # RootOfDecodedX

\* C10: with the infinity flag set, a compressed encoding decodes to the
\* identity only if its payload is zero, and fails if the payload is not.
C10_InfinityPayloadZero ==
    (DecodeDone /\ FlagC /\ FlagI) =>
        /\ (ret = Ok(G1infinity) \/ ret = Ok(G2infinity)) => PayloadZero
        /\ ~PayloadZero => ret.kind = "error"

(***************************************************************************)
(* pair on multiples of the generators.                                    *)
(***************************************************************************)
\* pair is called on [a]G1 and [b]G2 for a in 1 .. MaxA and b in 1 .. MaxB,
\* and for the scalars of the tests: a multiple of the group order, and
\* 25 * 42 = 1050.
MaxA == 8

MaxB == 6

ScalarPairs ==
    ((1..MaxA) \X (1..MaxB)) \cup {<<25, 42>>, <<1050, 1>>, <<R, 1>>, <<1, R>>, <<12, 12>>}

PassMultiples ==
    /\ pc = "idle"
    /\ \E ab \in ScalarPairs :
          call' = [op |-> "pair", p |-> G1mul(G1generator, ab[1]),
                   q |-> G2mul(G2generator, ab[2]), a |-> ab[1], b |-> ab[2]]
    /\ pc' = "called" /\ ret' = NoResult /\ buf' = buf

Pair ==
    /\ pc = "called" /\ call.op = "pair"
    /\ ret' = pair(call.p, call.q)
    /\ pc' = "done" /\ call' = call /\ buf' = buf

NextBilinear == PassMultiples \/ Pair \/ Return

SpecBilinear == Init /\ [][NextBilinear]_vars

(***************************************************************************)
(* The Miller loop, one iteration at a time.  buf holds the locals of      *)
(* miller: <<iterations, the number of iterations done, acc, r>>.          *)
(***************************************************************************)
\* The curve parameter of the revision whose miller reads X as it is.
XUnsigned == 14480

\* while (curveX > 0n) { iterations.push(Boolean(curveX & 1n)); curveX >>= 1n }
RECURSIVE pushBits(_, _)
pushBits(curveX, its) ==
    IF curveX > 0 THEN pushBits(curveX \div 2, Append(its, curveX % 2 = 1))
    ELSE its

\* iterations.pop(): nothing is removed from an empty array.
pop(its) == IF its = <<>> THEN its ELSE SubSeq(its, 1, Len(its) - 1)

reverse(its) == [k \in 1..Len(its) |-> its[Len(its) + 1 - k]]

\* The loop's bits with the leading one kept.
iterationsWithLeadingBit(curveX) == reverse(pushBits(curveX, <<>>))

iterationsFrom(curveX) == reverse(pop(pushBits(curveX, <<>>)))

\* miller starts from abs(X), or from X where X is positive.
MillerRevisions == {"abs(X)", "X"}

curveXOf(revision) == IF revision = "abs(X)" THEN abs(X) ELSE XUnsigned

MaxMillerA == 2

MaxMillerB == 4

PassMillerPoints ==
    /\ pc = "idle"
    /\ \E a \in 1..MaxMillerA, b \in 1..MaxMillerB, revision \in MillerRevisions :
          call' = [op |-> "miller", p |-> G1mul(G1generator, a),
                   q |-> G2mul(G2generator, b), revision |-> revision]
    /\ pc' = "called" /\ ret' = NoResult /\ buf' = buf

\* The statements of miller before its for loop.
MillerBegin ==
    /\ pc = "called" /\ call.op = "miller"
    /\ buf' = <<iterationsFrom(curveXOf(call.revision)), 0, Fq12One, call.q>>
    /\ pc' = "loop" /\ call' = call /\ ret' = ret

\* The locals after an iteration that left <<acc, r>> = st; an iteration that
\* threw ends the call.
MillerIterationOf(st) ==
    CASE st = st ->
         IF Fq12Threw(st[1])
         THEN ret' = Error("Inversion of zero") /\ pc' = "done" /\ buf' = buf
         ELSE buf' = <<buf[1], buf[2] + 1, st[1], st[2]>> /\ pc' = "loop" /\ ret' = ret

\* One iteration of the for loop.
MillerIteration ==
    /\ pc = "loop" /\ buf[2] < Len(buf[1])
    /\ MillerIterationOf(millerDouble(call.p, call.q, buf[1][buf[2] + 1], buf[3], buf[4],
                                      G2double(buf[4]), lineDouble(buf[4], call.p)))
    /\ call' = call

\* return acc
Miller ==
    /\ pc = "loop" /\ buf[2] = Len(buf[1])
    /\ ret' = Ok(buf[3])
    /\ pc' = "done" /\ call' = call /\ buf' = buf

NextMiller == PassMillerPoints \/ MillerBegin \/ MillerIteration \/ Miller \/ Return

SpecMiller == Init /\ [][NextMiller]_vars

\* The number of bits of n > 0.
RECURSIVE bitlen(_)
bitlen(n) == IF n = 0 THEN 0 ELSE 1 + bitlen(n \div 2)

RECURSIVE TwoToThe(_)
TwoToThe(n) == IF n = 0 THEN 1 ELSE 2 * TwoToThe(n - 1)

\* The integer formed by the leading one of |X| and the k bits below it.
LeadingBits(k) == abs(X) \div TwoToThe(bitlen(abs(X)) - 1 - k)

\* C24: the Miller loop runs bitlen(|X|) - 1 iterations over the bits of |X|
\* from the second most significant down to bit 0; after k iterations the
\* running point is [n]Q for n the leading one of |X| followed by its next k
\* bits, so that each iteration takes [n]Q to [2n]Q or [2n + 1]Q, and at exit
\* it is [|X|]Q; the loop that reads the signed X through abs and the loop
\* that reads a positive X run the same iterations.
C24_MillerLoopInvariant ==
    (pc \in {"loop", "done"} /\ call.op = "miller") =>
        /\ Len(buf[1]) = bitlen(abs(X)) - 1
        /\ \A j \in 1..Len(buf[1]) :
              buf[1][j] = ((abs(X) \div TwoToThe(Len(buf[1]) - j)) % 2 = 1)
        /\ buf[2] \in 0..Len(buf[1])
        /\ buf[4] = G2mul(call.q, LeadingBits(buf[2]))
        /\ pc = "done" => /\ ret.kind = "ok"
                          /\ buf[2] = Len(buf[1])
                          /\ buf[4] = G2mul(call.q, abs(X))

\* A Miller loop of the revision reading abs(X) of the negative X returned
\* after all its iterations, its running point [|X|]Q.
C24_Witness ==
    /\ pc = "done" /\ call.op = "miller" /\ call.revision = "abs(X)"
    /\ ret.kind = "ok"
    /\ buf[2] = bitlen(abs(X)) - 1 /\ buf[2] > 1
    /\ buf[4] = G2mul(call.q, abs(X)) /\ buf[4] # call.q
    /\ X < 0

(***************************************************************************)
(* rawVerifyG1 on the points of the two groups.                            *)
(***************************************************************************)
\* The hashed messages [m]G1, the secret keys s of the public keys [s]G2,
\* and the signatures: every point of the group G1, the identity included.
MessageScalars == {1, 3}

SecretKeys == {2, 5}

PassSignature ==
    /\ pc = "idle"
    /\ \E m \in MessageScalars, s \in SecretKeys, t \in 0..(R - 1) :
          call' = [op |-> "rawVerifyG1", publicKey |-> G2mul(G2generator, s),
                   signature |-> G1mul(G1generator, t),
                   hashedMessage |-> G1mul(G1generator, m)]
    /\ pc' = "called" /\ ret' = NoResult /\ buf' = buf

RawVerifyG1 ==
    /\ pc = "called" /\ call.op = "rawVerifyG1"
    /\ ret' = rawVerifyG1(call.publicKey, call.signature, call.hashedMessage)
    /\ pc' = "done" /\ call' = call /\ buf' = buf

NextVerify == PassSignature \/ RawVerifyG1 \/ Return

SpecVerify == Init /\ [][NextVerify]_vars

\* The signature is [s]hashedMessage for the s with publicKey = [s]G2.
SignedWithKey ==
    \E s \in 1..(R - 1) :
       /\ G2equals(call.publicKey, G2mul(G2generator, s))
       /\ G1equals(call.signature, G1mul(call.hashedMessage, s))

\* C1: rawVerifyG1(pubKey, signature, hashedMessage) returns what
\* validatePairing(<<hashedMessage, signature>>, <<-pubKey, G2 generator>>)
\* returns; on valid points other than the identity it returns true if and
\* only if e(hashedMessage, pubKey) = e(signature, G2 generator), that is,
\* true when signature = [s]hashedMessage for the s with pubKey = [s]G2
\* generator, and false for every other signature of G1.
C1_VerifyIffSigned ==
    (pc = "done" /\ call.op = "rawVerifyG1") =>
        /\ ret = validatePairing(<<call.hashedMessage, call.signature>>,
                                 <<G2neg(call.publicKey), G2generator>>)
        /\ ~G1equals(call.signature, G1infinity) =>
              LET e == pair(call.signature, G2generator)
              IN /\ e.kind = "ok"
                 /\ ret = Ok(pair(call.hashedMessage, call.publicKey) = e)
                 /\ ret = Ok(SignedWithKey)

\* A signature under a key other than the generator, of a message other
\* than the generator, was accepted.
C1_Witness ==
    /\ pc = "done" /\ call.op = "rawVerifyG1"
    /\ call.publicKey # G2generator /\ call.hashedMessage # G1generator
    /\ SignedWithKey
    /\ ret = Ok(TRUE)

(***************************************************************************)
(* Properties of pair on multiples of the generators.                      *)
(***************************************************************************)
\* e(G1, G2) as pair computes it.
pairOfGenerators == pair(G1generator, G2generator)

PairOfMultiplesDone == pc = "done" /\ call.op = "pair" /\ "a" \in DOMAIN call

\* C5: the pairing is bilinear.  Every call pair([a]G1, [b]G2) returns
\* pair(G1, G2)^(a*b); the calls with b = 1 are the calls pair([k]G1, G2),
\* and pair(G1, G2)^R = 1 makes the exponent count modulo R, so that
\* pair([a]G1, [b]G2) = pair(G1, G2)^(a*b) = pair([a*b]G1, G2).
C5_Bilinear ==
    PairOfMultiplesDone =>
        /\ ret.kind = "ok"
        /\ ret.val = Fq12Exp(pairOfGenerators.val, Bits(call.a * call.b))
        /\ Fq12Exp(pairOfGenerators.val, Bits(R)) = Fq12One
        /\ ~Fq12equals(pairOfGenerators.val, Fq12One)

\* pair([25]G1, [42]G2) has returned pair(G1, G2)^1050, which is not 1.
C5_Witness ==
    /\ PairOfMultiplesDone /\ call.a = 25 /\ call.b = 42
    /\ ret.kind = "ok"
    /\ ret.val = Fq12Exp(pairOfGenerators.val, Bits(1050))
    /\ ~Fq12equals(ret.val, Fq12One)

(***************************************************************************)
(* The predicates of the points, pair and validatePairing on points of     *)
(* every kind.                                                             *)
(***************************************************************************)
\* this.mul(R) throws where a doubling inverts 2 * y = 0.
G1isInSubgroupCall(p) ==
    IF G1isInSubgroupThrew(p) THEN Error("Inversion of zero") ELSE Ok(G1isInSubgroup(p))

G2isInSubgroupCall(p) ==
    IF G2isInSubgroupThrew(p) THEN Error("Inversion of zero") ELSE Ok(G2isInSubgroup(p))

\* The identity, points of the subgroup, a point of the curve outside the
\* subgroup, a point off the curve, and a point off the curve with y = 0.
G1Inputs == {G1infinity, G1generator, G1neg(G1generator), <<0, 2>>, <<2867, 27199>>, <<1, 0>>}

G2Inputs ==
    {G2infinity, G2generator, << <<0, 1>>, <<5513, 46192>> >>,
     << <<35020, 9712>>, <<35752, 38933>> >>, << <<1, 0>>, <<0, 0>> >>}

G1Valid(p) == G1isOnCurve(p) /\ ~G1isInSubgroupThrew(p) /\ G1isInSubgroup(p)

G2Valid(q) == G2isOnCurve(q) /\ ~G2isInSubgroupThrew(q) /\ G2isInSubgroup(q)

\* validatePairing is called on lists of at most MaxPairs points each, of
\* equal and of different lengths.
MaxPairs == 2

G1ListPoints == {G1infinity, G1generator, G1neg(G1generator), <<1, 0>>}

G2ListPoints == {G2infinity, G2generator, << <<35020, 9712>>, <<35752, 38933>> >>}

ListsOf(S) == UNION {[1..n -> S] : n \in 0..MaxPairs}

PassG1Point ==
    /\ pc = "idle"
    /\ \E P \in G1Inputs, op \in {"G1.isOnCurve", "G1.isInSubgroup"} :
          call' = [op |-> op, p |-> P]
    /\ pc' = "called" /\ ret' = NoResult /\ buf' = buf

G1IsOnCurve ==
    /\ pc = "called" /\ call.op = "G1.isOnCurve"
    /\ ret' = Ok(G1isOnCurve(call.p))
    /\ pc' = "done" /\ call' = call /\ buf' = buf

G1IsInSubgroup ==
    /\ pc = "called" /\ call.op = "G1.isInSubgroup"
    /\ ret' = G1isInSubgroupCall(call.p)
    /\ pc' = "done" /\ call' = call /\ buf' = buf

PassG2Point ==
    /\ pc = "idle"
    /\ \E P \in G2Inputs, op \in {"G2.isOnCurve", "G2.isInSubgroup"} :
          call' = [op |-> op, p |-> P]
    /\ pc' = "called" /\ ret' = NoResult /\ buf' = buf

G2IsOnCurve ==
    /\ pc = "called" /\ call.op = "G2.isOnCurve"
    /\ ret' = Ok(G2isOnCurve(call.p))
    /\ pc' = "done" /\ call' = call /\ buf' = buf

G2IsInSubgroup ==
    /\ pc = "called" /\ call.op = "G2.isInSubgroup"
    /\ ret' = G2isInSubgroupCall(call.p)
    /\ pc' = "done" /\ call' = call /\ buf' = buf

PassPoints ==
    /\ pc = "idle"
    /\ \E P1 \in G1Inputs, P2 \in G2Inputs :
          call' = [op |-> "pair", p |-> P1, q |-> P2]
    /\ pc' = "called" /\ ret' = NoResult /\ buf' = buf

PassLists ==
    /\ pc = "idle"
    /\ \E ps \in ListsOf(G1ListPoints), qs \in ListsOf(G2ListPoints) :
          call' = [op |-> "validatePairing", ps |-> ps, qs |-> qs]
    /\ pc' = "called" /\ ret' = NoResult /\ buf' = buf

ValidatePairing ==
    /\ pc = "called" /\ call.op = "validatePairing"
    /\ ret' = validatePairing(call.ps, call.qs)
    /\ pc' = "done" /\ call' = call /\ buf' = buf

NextPoints ==
    \/ PassG1Point \/ G1IsOnCurve \/ G1IsInSubgroup
    \/ PassG2Point \/ G2IsOnCurve \/ G2IsInSubgroup
    \/ PassPoints \/ Pair
    \/ PassLists \/ ValidatePairing
    \/ Return

SpecPoints == Init /\ [][NextPoints]_vars

(***************************************************************************)
(* Properties of the predicates, pair and validatePairing.                 *)
(***************************************************************************)
ValidateDone == pc = "done" /\ call.op = "validatePairing"

IdentityPair(p, q) == G1equals(p, G1infinity) \/ G2equals(q, G2infinity)

\* A pair with an identity in it whose other point is the identity or valid.
IdentityPairOfValid(p, q) ==
    /\ IdentityPair(p, q)
    /\ G1equals(p, G1infinity) \/ G1Valid(p)
    /\ G2equals(q, G2infinity) \/ G2Valid(q)

\* The lists <<ps, qs>> from pair i on without the pairs that hold an identity.
RECURSIVE WithoutIdentityPairs(_, _, _)
WithoutIdentityPairs(ps, qs, i) ==
    IF i > Len(ps) THEN <<<<>>, <<>>>>
    ELSE LET rest == WithoutIdentityPairs(ps, qs, i + 1)
         IN IF IdentityPair(ps[i], qs[i]) THEN rest
            ELSE <<<<ps[i]>> \o rest[1], <<qs[i]>> \o rest[2]>>

\* C2: a pair (P_i, Q_i) with an identity in it contributes the factor 1 to
\* the product of validatePairing: a call on lists of valid pairs and
\* identity pairs returns what the call on the lists without the identity
\* pairs returns, which is true when every pair is an identity pair.
C2_IdentityPairContributesOne ==
    (/\ ValidateDone
     /\ Len(call.ps) = Len(call.qs)
     /\ \E i \in 1..Len(call.ps) : IdentityPair(call.ps[i], call.qs[i])
     /\ \A i \in 1..Len(call.ps) :
           \/ IdentityPairOfValid(call.ps[i], call.qs[i])
           \/ G1Valid(call.ps[i]) /\ G2Valid(call.qs[i]))
    => LET rest == WithoutIdentityPairs(call.ps, call.qs, 1)
       IN /\ ret = validatePairing(rest[1], rest[2])
          /\ rest[1] = <<>> => ret = Ok(TRUE)

PredicateDone ==
    /\ pc = "done"
    /\ call.op \in {"G1.isOnCurve", "G1.isInSubgroup", "G2.isOnCurve", "G2.isInSubgroup",
                    "validatePairing"}

\* C3: isOnCurve, isInSubgroup and validatePairing never raise an error: on
\* every input each of them returns true or false.
C3_PredicatesNeverFail ==
    PredicateDone => (ret.kind = "ok" /\ ret.val \in BOOLEAN)

PairOfPointsDone == pc = "done" /\ call.op = "pair" /\ "a" \notin DOMAIN call

\* C4: pair(P, Q) returns 1 when P or Q is the identity; for other inputs it
\* fails with 'Invalid point' when P or Q is not on the curve or not in the
\* subgroup, and returns finalExp(miller(P, Q)) otherwise.
C4_PairFailsInvalidPoint ==
    PairOfPointsDone =>
        IF IdentityPair(call.p, call.q) THEN ret = Ok(Fq12One)
        ELSE IF ~G1Valid(call.p) \/ ~G2Valid(call.q) THEN ret = Error("Invalid point")
        ELSE ret = Ok(finalExp(miller(call.p, call.q), FinalExponent))

(***************************************************************************)
(* Scalar multiplication and cofactor clearing, called on points of the    *)
(* curves E(Fq) and E'(Fq2) inside and outside the subgroups of order R.   *)
(***************************************************************************)
\* clearCofactor is this.mul(X).add(this), with the constant X as it is.
G1clearCofactorOf(p, m) == IF G1Threw(m) THEN m ELSE G1add(m, p)

G1clearCofactor(p) == G1clearCofactorOf(p, G1mul(p, X))

G1Result(v) == IF G1Threw(v) THEN Error("Inversion of zero") ELSE Ok(v)

G2Result(v) == IF G2Threw(v) THEN Error("Inversion of zero") ELSE Ok(v)

\* p.mul(n).add(p.mul(m)): a throwing mul ends the expression.
G1mulAddOf(a, b) == IF G1Threw(a) THEN a ELSE IF G1Threw(b) THEN b ELSE G1add(a, b)

G1mulAdd(p, n, m) == G1mulAddOf(G1mul(p, n), G1mul(p, m))

G2mulAddOf(a, b) == IF G2Threw(a) THEN a ELSE IF G2Threw(b) THEN b ELSE G2add(a, b)

G2mulAdd(p, n, m) == G2mulAddOf(G2mul(p, n), G2mul(p, m))

\* The scalars of a sum [n]P + [m]P lie in 0 .. MaxN, the scalar of a
\* single mul in -MaxC .. MaxC.
MaxN == 7

MaxC == 14

\* The identity, the generator, points of E(Fq) of order 3, 13 * 1609 and
\* 3 * 13 * 1609, and a point that is not on the curve.
G1GroupPoints ==
    {G1infinity, G1generator, <<0, 2>>, <<0, 62729>>, <<1, 14353>>, <<11, 45718>>,
     <<2867, 27199>>}

\* The identity, the generator, points of E'(Fq2) of order 13 * 3061 * 98893
\* and 3061 * 98893, and a point that is not on the curve.
G2GroupPoints ==
    {G2infinity, G2generator, << <<0, 1>>, <<5513, 46192>> >>,
     << <<3, 0>>, <<42576, 7087>> >>, << <<35020, 9712>>, <<35752, 38933>> >>}

PassG1Scalars ==
    /\ pc = "idle"
    /\ \E P1 \in G1GroupPoints, n \in 0..MaxN, m \in 0..MaxN :
          call' = [op |-> "G1.mul.add", p |-> P1, n |-> n, m |-> m]
    /\ pc' = "called" /\ ret' = NoResult /\ buf' = buf

G1MulAdd ==
    /\ pc = "called" /\ call.op = "G1.mul.add"
    /\ ret' = G1Result(G1mulAdd(call.p, call.n, call.m))
    /\ pc' = "done" /\ call' = call /\ buf' = buf

PassG2Scalars ==
    /\ pc = "idle"
    /\ \E P2 \in G2GroupPoints, n \in 0..MaxN, m \in 0..MaxN :
          call' = [op |-> "G2.mul.add", p |-> P2, n |-> n, m |-> m]
    /\ pc' = "called" /\ ret' = NoResult /\ buf' = buf

G2MulAdd ==
    /\ pc = "called" /\ call.op = "G2.mul.add"
    /\ ret' = G2Result(G2mulAdd(call.p, call.n, call.m))
    /\ pc' = "done" /\ call' = call /\ buf' = buf

PassG1Scalar ==
    /\ pc = "idle"
    /\ \E P1 \in G1GroupPoints, c \in -MaxC..MaxC :
          call' = [op |-> "G1.mul", p |-> P1, c |-> c]
    /\ pc' = "called" /\ ret' = NoResult /\ buf' = buf

G1Mul ==
    /\ pc = "called" /\ call.op = "G1.mul"
    /\ ret' = G1Result(G1mul(call.p, call.c))
    /\ pc' = "done" /\ call' = call /\ buf' = buf

PassG2Scalar ==
    /\ pc = "idle"
    /\ \E P2 \in G2GroupPoints, c \in -MaxC..MaxC :
          call' = [op |-> "G2.mul", p |-> P2, c |-> c]
    /\ pc' = "called" /\ ret' = NoResult /\ buf' = buf

G2Mul ==
    /\ pc = "called" /\ call.op = "G2.mul"
    /\ ret' = G2Result(G2mul(call.p, call.c))
    /\ pc' = "done" /\ call' = call /\ buf' = buf

PassG1Cofactor ==
    /\ pc = "idle"
    /\ \E P1 \in G1GroupPoints \cup G1CurvePoints :
          call' = [op |-> "G1.clearCofactor", p |-> P1]
    /\ pc' = "called" /\ ret' = NoResult /\ buf' = buf

G1ClearCofactor ==
    /\ pc = "called" /\ call.op = "G1.clearCofactor"
    /\ ret' = G1Result(G1clearCofactor(call.p))
    /\ pc' = "done" /\ call' = call /\ buf' = buf

NextGroup ==
    \/ PassG1Scalars \/ G1MulAdd
    \/ PassG2Scalars \/ G2MulAdd
    \/ PassG1Scalar \/ G1Mul
    \/ PassG2Scalar \/ G2Mul
    \/ PassG1Cofactor \/ G1ClearCofactor
    \/ Return

SpecGroup == Init /\ [][NextGroup]_vars

(***************************************************************************)
(* Properties of scalar multiplication and cofactor clearing.              *)
(***************************************************************************)
G1SmallMultiples(p) ==
    /\ G1mul(p, 0) = G1infinity
    /\ G1mul(p, 1) = p
    /\ G1mul(p, 2) = G1add(p, p)
    /\ G1mul(p, 3) = G1add(G1add(p, p), p)

G2SmallMultiples(p) ==
    /\ G2mul(p, 0) = G2infinity
    /\ G2mul(p, 1) = p
    /\ G2mul(p, 2) = G2add(p, p)
    /\ G2mul(p, 3) = G2add(G2add(p, p), p)

\* C11: for every on-curve point P of G1 or G2 and all n, m >= 0,
\* P.mul(n).add(P.mul(m)) equals P.mul(n + m); P.mul(0) is the identity,
\* P.mul(1) is P, P.mul(2) is P.add(P) and P.mul(3) is P.add(P).add(P).
C11_MulHomomorphism ==
    /\ (pc = "done" /\ call.op = "G1.mul.add" /\ G1isOnCurve(call.p))
       => (ret = Ok(G1mul(call.p, call.n + call.m)) /\ G1SmallMultiples(call.p))
    /\ (pc = "done" /\ call.op = "G2.mul.add" /\ G2isOnCurve(call.p))
       => (ret = Ok(G2mul(call.p, call.n + call.m)) /\ G2SmallMultiples(call.p))

\* A sum that wraps around the order of the point: [2]P + [2]P = P for a
\* point P of order 3, and [7]G + [7]G = G for the generator of G2.
C11_Witness ==
    \/ /\ pc = "done" /\ call.op = "G1.mul.add"
       /\ call.p = <<0, 2>> /\ call.n = 2 /\ call.m = 2 /\ ret = Ok(<<0, 2>>)
    \/ /\ pc = "done" /\ call.op = "G2.mul.add"
       /\ call.p = G2generator /\ call.n = 7 /\ call.m = 7 /\ ret = Ok(G2generator)

\* C12: for every on-curve point P and every integer c, negative c
\* included, P.mul(c) equals P.mul(|c|).
C12_MulOfAbsoluteValue ==
    /\ (pc = "done" /\ call.op = "G1.mul" /\ G1isOnCurve(call.p))
       => ret = Ok(G1mul(call.p, abs(call.c)))
    /\ (pc = "done" /\ call.op = "G2.mul" /\ G2isOnCurve(call.p))
       => ret = Ok(G2mul(call.p, abs(call.c)))

\* C13: for every on-curve point P of E(Fq), clearCofactor(P) equals
\* [|X|]P + P, and the result is on the curve and in the subgroup of order R.
C13_ClearCofactorInSubgroup ==
    (pc = "done" /\ call.op = "G1.clearCofactor" /\ G1isOnCurve(call.p))
    => /\ ret = Ok(G1add(G1mul(call.p, abs(X)), call.p))
       /\ G1isOnCurve(ret.val)
       /\ G1isInSubgroup(ret.val)

(***************************************************************************)
(* Hashing to the field: expandMsgXmd and hashToField.  sha256 comes from  *)
(* a library; a digest of 32 bytes that depends on the length and on every *)
(* byte of its input stands for it.                                        *)
(***************************************************************************)
RECURSIVE ByteSum(_, _, _)
ByteSum(b, lo, hi) ==
    IF lo > hi THEN 0
    ELSE IF lo = hi THEN b[lo]
    ELSE ByteSum(b, lo, (lo + hi) \div 2) + ByteSum(b, (lo + hi) \div 2 + 1, hi)

RECURSIVE WeightedByteSum(_, _, _)
WeightedByteSum(b, lo, hi) ==
    IF lo > hi THEN 0
    ELSE IF lo = hi THEN lo * b[lo]
    ELSE WeightedByteSum(b, lo, (lo + hi) \div 2)
         + WeightedByteSum(b, (lo + hi) \div 2 + 1, hi)

sha256Of(len, s, w) ==
    [j \in 1..32 |-> (s * (j + 7) + w * (2 * j + 1) + len * j + j * j) % 256]

sha256(b) == sha256Of(Len(b), ByteSum(b, 1, Len(b)) % 251, WeightedByteSum(b, 1, Len(b)) % 241)

\* a ^ b on two bytes.
ByteXor(a, b) ==
    LET bit(v, k) == (v \div (2 ^ k)) % 2
        x(k) == (2 ^ k) * ((bit(a, k) + bit(b, k)) % 2)
    IN x(0) + x(1) + x(2) + x(3) + x(4) + x(5) + x(6) + x(7)

\* toBigEndianBuffer(toBigInt(a) ^ toBigInt(b), 32) for two digests.
xorDigests(a, b) == [j \in 1..32 |-> ByteXor(a[j], b[j])]

\* new Uint8Array(n): n zero bytes.
zeroBytes(n) == [j \in 1..n |-> 0]

\* out.set(bi, offset): a RangeError unless bi fits in out at the offset.
\* <<-1>> stands for the thrown RangeError.
setBytes(out, bi, offset) ==
    IF offset < 0 \/ offset + Len(bi) > Len(out) THEN <<-1>>
    ELSE SubSeq(out, 1, offset) \o bi \o SubSeq(out, offset + Len(bi) + 1, Len(out))

xmdThrew(st) == st[2] = <<-1>>

\* Iteration i of the loop of expandMsgXmd on <<bi, out>>.
xmdStep(dst, b0, st, i) ==
    IF xmdThrew(st) THEN st
    ELSE <<sha256(xorDigests(b0, st[1]) \o <<1 + i>> \o dst \o <<Len(dst)>>),
           setBytes(st[2], st[1], (i - 1) * 32)>>

RECURSIVE xmdSteps(_, _, _, _, _)
xmdSteps(dst, b0, st, lo, hi) ==
    IF lo > hi THEN st
    ELSE IF lo = hi THEN xmdStep(dst, b0, st, lo)
    ELSE LET mid == (lo + hi) \div 2
             left == xmdSteps(dst, b0, st, lo, mid)
         IN CASE left = left -> xmdSteps(dst, b0, left, mid + 1, hi)

\* A return without the final write: the last block of out stays zero.
xmdFinalNoWrite(st, ell) == st[2]

\* The final out.set(bi, (ell - 1) * 32) and the return.
xmdFinal(st, ell) ==
    CASE st = st ->
         IF xmdThrew(st) THEN st[2] ELSE setBytes(st[2], st[1], (ell - 1) * 32)

xmdWithB0(dst, byteLength, ell, b0) ==
    CASE b0 = b0 ->
         xmdFinal(xmdSteps(dst, b0,
                           <<sha256(b0 \o <<1>> \o dst \o <<Len(dst)>>), zeroBytes(byteLength)>>,
                           1, ell - 1),
                  ell)

xmdResult(out) ==
    CASE out = out ->
         IF out = <<-1>> THEN Error("offset is out of bounds") ELSE Ok(out)

\* Math.ceil(byteLength / 32) for byteLength >= 0.
ceilDiv32(byteLength) == (byteLength + 31) \div 32

expandMsgXmd(dst, message, byteLength) ==
    IF byteLength > 65536 \/ ceilDiv32(byteLength) > 255 \/ Len(dst) > 255
    THEN Error("Invalid lengths")
    ELSE xmdResult(xmdWithB0(dst, byteLength, ceilDiv32(byteLength),
                             sha256(zeroBytes(64) \o message
                                    \o <<(byteLength \div 256) % 256, byteLength % 256>>
                                    \o <<0>> \o dst \o <<Len(dst)>>)))

\* The earlier copy of expandMsgXmd: the loop runs for i = 1 .. ell and there
\* is no write after it.
xmdInclusiveWithB0(dst, byteLength, ell, b0) ==
    CASE b0 = b0 ->
         xmdSteps(dst, b0,
                  <<sha256(b0 \o <<1>> \o dst \o <<Len(dst)>>), zeroBytes(byteLength)>>,
                  1, ell)[2]

expandMsgXmdInclusive(dst, message, byteLength) ==
    IF byteLength > 65536 \/ ceilDiv32(byteLength) > 255 \/ Len(dst) > 255
    THEN Error("Invalid lengths")
    ELSE xmdResult(xmdInclusiveWithB0(dst, byteLength, ceilDiv32(byteLength),
                                      sha256(zeroBytes(64) \o message
                                             \o <<(byteLength \div 256) % 256, byteLength % 256>>
                                             \o <<0>> \o dst \o <<Len(dst)>>)))

\* The loop of hashToField: element i is modp(toBigInt(_msg.slice(i * 64,
\* i * 64 + 64))).
hashToFieldOf(msg, count) ==
    IF msg.kind = "error" THEN msg
    ELSE Ok([i \in 1..count |-> FqOfBytes(slice(msg.val, (i - 1) * 64, (i - 1) * 64 + 64))])

hashToField(dst, msg, count) == hashToFieldOf(expandMsgXmd(dst, msg, 64 * count), count)

(***************************************************************************)
(* Calls of expandMsgXmd and hashToField.                                  *)
(***************************************************************************)
\* Messages have 0 .. MaxMsgLen bytes; the requested lengths are
\* 0 .. MaxLength and the lengths around the limits 255 * 32 and 65536;
\* the counts are 0 .. MaxCount and the counts around the limit 255 * 32 / 64.
MaxMsgLen == 2

MaxLength == 65

MaxCount == 3

Messages == {[j \in 1..n |-> (5 * j + n) % 256] : n \in 0..MaxMsgLen}

\* Domain separation tags of 0, 3, 255 and 256 bytes.
Dsts == {[j \in 1..n |-> (j + 65) % 256] : n \in {0, 3, 255, 256}}

XmdLengths == (0..MaxLength) \cup {8160, 8161, 65536, 65537}

Counts == (0..MaxCount) \cup {127, 128}

PassXmd ==
    /\ pc = "idle"
    /\ \E dst \in Dsts, msg \in Messages, len \in XmdLengths :
          call' = [op |-> "expandMsgXmd", dst |-> dst, msg |-> msg, byteLength |-> len]
    /\ pc' = "called" /\ ret' = NoResult /\ buf' = buf

ExpandMsgXmd ==
    /\ pc = "called" /\ call.op = "expandMsgXmd"
    /\ ret' = expandMsgXmd(call.dst, call.msg, call.byteLength)
    /\ pc' = "done" /\ call' = call /\ buf' = buf

PassHashToField ==
    /\ pc = "idle"
    /\ \E dst \in Dsts, msg \in Messages, count \in Counts :
          call' = [op |-> "hashToField", dst |-> dst, msg |-> msg, count |-> count]
    /\ pc' = "called" /\ ret' = NoResult /\ buf' = buf

HashToField ==
    /\ pc = "called" /\ call.op = "hashToField"
    /\ ret' = hashToField(call.dst, call.msg, call.count)
    /\ pc' = "done" /\ call' = call /\ buf' = buf

\* The length of the regression stream of the test 'expandMsgXmd'.
RegressionLength == 128

PassXmdInclusive ==
    /\ pc = "idle"
    /\ \E dst \in Dsts, msg \in Messages, len \in XmdLengths \cup {RegressionLength} :
          call' = [op |-> "expandMsgXmdInclusive", dst |-> dst, msg |-> msg,
                   byteLength |-> len]
    /\ pc' = "called" /\ ret' = NoResult /\ buf' = buf

ExpandMsgXmdInclusive ==
    /\ pc = "called" /\ call.op = "expandMsgXmdInclusive"
    /\ ret' = expandMsgXmdInclusive(call.dst, call.msg, call.byteLength)
    /\ pc' = "done" /\ call' = call /\ buf' = buf

NextHash ==
    \/ PassXmd \/ ExpandMsgXmd
    \/ PassXmdInclusive \/ ExpandMsgXmdInclusive
    \/ PassHashToField \/ HashToField
    \/ Return

SpecHash == Init /\ [][NextHash]_vars

(***************************************************************************)
(* Properties of expandMsgXmd and hashToField.  The reference is           *)
(* expand_message_xmd of RFC 9380, section 5.3.1, with the same digest.    *)
(***************************************************************************)
RfcDstPrime(dst) == dst \o <<Len(dst)>>

RfcB0(dst, msg, len) ==
    sha256(zeroBytes(64) \o msg \o <<(len \div 256) % 256, len % 256>> \o <<0>>
           \o RfcDstPrime(dst))

\* b_i from b_(i-1), appended to the blocks so far: st is <<b_(i-1), blocks>>.
RfcBlock(dst, b0, st, i) ==
    LET bi == IF i = 1 THEN sha256(b0 \o <<1>> \o RfcDstPrime(dst))
              ELSE sha256(xorDigests(b0, st[1]) \o <<i>> \o RfcDstPrime(dst))
    IN <<bi, st[2] \o bi>>

RECURSIVE RfcBlocks(_, _, _, _, _)
RfcBlocks(dst, b0, st, lo, hi) ==
    IF lo > hi THEN st
    ELSE IF lo = hi THEN RfcBlock(dst, b0, st, lo)
    ELSE LET mid == (lo + hi) \div 2
             left == RfcBlocks(dst, b0, st, lo, mid)
         IN CASE left = left -> RfcBlocks(dst, b0, left, mid + 1, hi)

\* The first len bytes of b_1 || ... || b_ell.
RfcUniformBytes(dst, msg, len) ==
    SubSeq(RfcBlocks(dst, RfcB0(dst, msg, len), <<<<>>, <<>>>>, 1, ceilDiv32(len))[2], 1, len)

XmdLengthsValid(dst, len) == Len(dst) <= 255 /\ len <= 65536 /\ ceilDiv32(len) <= 255

\* C14: for dst of at most 255 bytes and a length L <= 65536 with
\* ceil(L / 32) <= 255, a multiple of 32 or not, expandMsgXmd returns the
\* first L bytes of b_1 || ... || b_ell; beyond a bound it fails with
\* 'Invalid lengths'.
C14_ExpandReturnsLBytes ==
    (pc = "done" /\ call.op = "expandMsgXmd")
    => IF XmdLengthsValid(call.dst, call.byteLength)
       THEN ret = Ok(RfcUniformBytes(call.dst, call.msg, call.byteLength))
       ELSE ret = Error("Invalid lengths")

\* The value of 64 big-endian bytes modulo Q: the sum of the bytes weighted
\* by the powers of 256 modulo Q.
RECURSIVE BigEndianModQ(_, _, _)
BigEndianModQ(bytes, lo, hi) ==
    IF lo > hi THEN 0
    ELSE IF lo = hi THEN FqMul(bytes[lo], FqExp(256, Len(bytes) - lo))
    ELSE FqAdd(BigEndianModQ(bytes, lo, (lo + hi) \div 2),
               BigEndianModQ(bytes, (lo + hi) \div 2 + 1, hi))

\* C15: hashToField(dst, msg, count) returns count values; value i is the
\* big-endian integer of bytes 64 i .. 64 i + 63 of expandMsgXmd(dst, msg,
\* 64 count) modulo Q, a value of 0 .. Q - 1.
C15_HashToFieldCount ==
    (pc = "done" /\ call.op = "hashToField" /\ XmdLengthsValid(call.dst, 64 * call.count))
    => /\ ret.kind = "ok"
       /\ Len(ret.val) = call.count
       /\ LET bytes == RfcUniformBytes(call.dst, call.msg, 64 * call.count)
          IN \A i \in 1..call.count :
                /\ ret.val[i] \in 0..(Q - 1)
                /\ ret.val[i] = BigEndianModQ(SubSeq(bytes, 64 * (i - 1) + 1, 64 * i), 1, 64)

(***************************************************************************)
(* Fr, the field of the scalars, and the inversion of the earlier class Fq *)
(* (src/src/ff.ts), which runs the binary extended Euclidean algorithm.    *)
(***************************************************************************)
Fr(x) == mod(x, R)

FrAdd(a, b) == Fr(a + b)

FrSub(a, b) == Fr(a - b)

FrNeg(a) == Fr(-a)

FrMul(a, b) == Fr(a * b)

FrMulByScalar(a, c) == Fr(a * c)

\* -1 stands for the thrown 'Inversion of zero'.
FrInv(a) == IF a = 0 THEN -1 ELSE Fr(gcd(a, R))

RECURSIVE FrExpLoop(_, _, _)
FrExpLoop(x, result, y) ==
    IF y > 0
    THEN LET result1 == IF y % 2 = 1 THEN FrMul(result, x) ELSE result
             x1 == FrMul(x, x)
         IN CASE result1 = result1 /\ x1 = x1 -> FrExpLoop(x1, result1, y \div 2)
    ELSE result

FrExp(a, y) == FrExpLoop(a, Fr(1), y)

\* The recursive gcd(u, v, x1, x2, p) of the earlier file.  One call on
\* <<u, v, x1, x2>> gives the arguments of the call it makes, or <<result>>
\* when it returns; <<-1>> stands for its thrown errors.  n >> 1n is the
\* floor of n / 2.
gcdBinaryCall(st, p) ==
    IF Len(st) = 1 THEN st
    ELSE LET u == st[1]
             v == st[2]
             x1 == st[3]
             x2 == st[4]
         IN IF ~(u > 0 /\ v > 0) THEN <<-1>>
            ELSE IF u = 1 THEN <<mod(x1, Q)>>
            ELSE IF v = 1 THEN <<mod(x2, Q)>>
            ELSE IF rem(u, 2) = 0
                 THEN IF rem(x1, 2) = 0 THEN <<u \div 2, v, x1 \div 2, x2>>
                      ELSE <<u \div 2, v, (x1 + p) \div 2, x2>>
            ELSE IF rem(v, 2) = 0
                 THEN IF rem(x2, 2) = 0 THEN <<u, v \div 2, x1, x2 \div 2>>
                      ELSE <<u, v \div 2, x1, (x2 + Q) \div 2>>
            ELSE IF u >= v THEN <<u - v, v, x1 - x2, x2>>
            ELSE <<u, v - u, x1, x2 - x1>>

\* The calls nest at most MaxGcdDepth deep.
MaxGcdDepth == 128

\* n nested calls, run on halves of n.
RECURSIVE gcdBinaryCalls(_, _, _)
gcdBinaryCalls(st, p, n) ==
    IF n <= 1 THEN gcdBinaryCall(st, p)
    ELSE LET half == gcdBinaryCalls(st, p, n \div 2)
         IN CASE half = half -> gcdBinaryCalls(half, p, n - n \div 2)

gcdBinaryOf(st) == CASE st = st -> IF Len(st) = 1 THEN st[1] ELSE -1

gcdBinary(u, v, x1, x2, p) == gcdBinaryOf(gcdBinaryCalls(<<u, v, x1, x2>>, p, MaxGcdDepth))

FqInvBinaryOf(t) == IF t = -1 THEN -1 ELSE Fq(t)

FqInvBinary(a) == IF a = 0 THEN -1 ELSE FqInvBinaryOf(gcdBinary(a, Q, 1, 0, Q))

RECURSIVE Fq6ExpLoop(_, _, _)
Fq6ExpLoop(x, result, y) ==
    IF y > 0
    THEN LET result1 == IF y % 2 = 1 THEN Fq6Mul(result, x) ELSE result
             x1 == Fq6Mul(x, x)
         IN CASE result1 = result1 /\ x1 = x1 -> Fq6ExpLoop(x1, result1, y \div 2)
    ELSE result

Fq6Exp(a, y) == Fq6ExpLoop(a, Fq6One, y)

(***************************************************************************)
(* frobeniusMap.  The static tables hold (1 + u)^((a * Q^j - a) / divisor) *)
(* for a = 1 .. num and j = 0 .. degree - 1.                               *)
(***************************************************************************)
Fq2Conjugate(a) == <<a[1], FqNeg(a[2])>>

\* A map that ignores the power.
Fq2FrobeniusIdentity(a, power) == a

Fq2FrobeniusMap(a, power) == IF power % 2 = 1 THEN Fq2Conjugate(a) ELSE a

\* frobeniusCoeffs(Fq2.NON_RESIDUE, Q, 6n, 2n, 3n)
Fq6_FROBENIUS_COEFFICIENTS ==
    << << <<1, 0>>, <<0, 29737>>, <<32993, 0>>, <<0, 1>>, <<29737, 0>>, <<0, 32993>> >>,
       << <<1, 0>>, <<29738, 0>>, <<29737, 0>>, <<62730, 0>>, <<32993, 0>>, <<32994, 0>> >> >>

\* frobeniusCoeffs(Fq2.NON_RESIDUE, Q, 12n, 1n, 6n)
Fq12_FROBENIUS_COEFFICIENTS ==
    << << <<1, 0>>, <<33240, 29491>>, <<32994, 0>>, <<57218, 5513>>, <<32993, 0>>,
          <<23978, 38753>>, <<62730, 0>>, <<29491, 33240>>, <<29737, 0>>,
          <<5513, 57218>>, <<29738, 0>>, <<38753, 23978>> >> >>

\* Index c of the source's arrays is index c + 1 here.
Fq6FrobeniusMap(a, power) ==
    LET c == power % 6
    IN <<Fq2FrobeniusMap(a[1], power),
         Fq2Mul(Fq2FrobeniusMap(a[2], power), Fq6_FROBENIUS_COEFFICIENTS[1][c + 1]),
         Fq2Mul(Fq2FrobeniusMap(a[3], power), Fq6_FROBENIUS_COEFFICIENTS[2][c + 1])>>

Fq12FrobeniusMap(a, power) ==
    LET x == Fq6FrobeniusMap(a[1], power)
        y == Fq6FrobeniusMap(a[2], power)
        coeff == Fq12_FROBENIUS_COEFFICIENTS[1][(power % 12) + 1]
    IN <<x, <<Fq2Mul(y[1], coeff), Fq2Mul(y[2], coeff), Fq2Mul(y[3], coeff)>> >>

(***************************************************************************)
(* The methods of the interface Field, dispatched on the class of the      *)
(* element: "Fq", "FqBinary" (the earlier class Fq), "Fr", "Fq2", "Fq6"    *)
(* and "Fq12".                                                             *)
(***************************************************************************)
FieldAdd(f, a, b) ==
    CASE f = "Fq" -> FqAdd(a, b) [] f = "Fr" -> FrAdd(a, b) [] f = "Fq2" -> Fq2Add(a, b)
      [] f = "Fq6" -> Fq6Add(a, b) [] f = "Fq12" -> Fq12Add(a, b)

FieldSub(f, a, b) ==
    CASE f = "Fq" -> FqSub(a, b) [] f = "Fr" -> FrSub(a, b) [] f = "Fq2" -> Fq2Sub(a, b)
      [] f = "Fq6" -> Fq6Sub(a, b) [] f = "Fq12" -> Fq12Sub(a, b)

FieldNeg(f, a) ==
    CASE f = "Fq" -> FqNeg(a) [] f = "Fr" -> FrNeg(a) [] f = "Fq2" -> Fq2Neg(a)
      [] f = "Fq6" -> Fq6Neg(a) [] f = "Fq12" -> Fq12Neg(a)

FieldMul(f, a, b) ==
    CASE f \in {"Fq", "FqBinary"} -> FqMul(a, b) [] f = "Fr" -> FrMul(a, b)
      [] f = "Fq2" -> Fq2Mul(a, b) [] f = "Fq6" -> Fq6Mul(a, b) [] f = "Fq12" -> Fq12Mul(a, b)

FieldMulByScalar(f, a, c) ==
    CASE f = "Fq" -> FqMulByScalar(a, c) [] f = "Fr" -> FrMulByScalar(a, c)
      [] f = "Fq2" -> Fq2MulByScalar(a, c)

FieldInv(f, a) ==
    CASE f = "Fq" -> FqInv(a) [] f = "FqBinary" -> FqInvBinary(a) [] f = "Fr" -> FrInv(a)
      [] f = "Fq2" -> Fq2Inv(a) [] f = "Fq6" -> Fq6Inv(a) [] f = "Fq12" -> Fq12Inv(a)

FieldExp(f, a, y) ==
    CASE f = "Fq" -> FqExp(a, y) [] f = "Fr" -> FrExp(a, y) [] f = "Fq2" -> Fq2Exp(a, y)
      [] f = "Fq6" -> Fq6Exp(a, y) [] f = "Fq12" -> Fq12Exp(a, Bits(y))

FieldFrobeniusMap(f, a, power) ==
    CASE f = "Fq2" -> Fq2FrobeniusMap(a, power) [] f = "Fq6" -> Fq6FrobeniusMap(a, power)
      [] f = "Fq12" -> Fq12FrobeniusMap(a, power)

FieldSqrt(f, a) == CASE f = "Fq" -> FqSqrt(a) [] f = "Fq2" -> Fq2Sqrt(a)

FieldZero(f) ==
    CASE f \in {"Fq", "FqBinary", "Fr"} -> 0 [] f = "Fq2" -> Fq2Zero
      [] f = "Fq6" -> Fq6Zero [] f = "Fq12" -> Fq12Zero

FieldOne(f) ==
    CASE f \in {"Fq", "FqBinary", "Fr"} -> 1 [] f = "Fq2" -> Fq2One
      [] f = "Fq6" -> Fq6One [] f = "Fq12" -> Fq12One

\* A value of the type number.
JsNumber(n) == [nan |-> FALSE, n |-> n]

NaN == [nan |-> TRUE, n |-> 0]

\* Number(x) of an element x of Fq or Fr: the classes define no valueOf, so
\* the conversion parses x.toString(), '(Fq 1)' or '(Fr 1)', which is not
\* the text of a number.
NumberOfElement(x) == NaN

\* legendre from x = this.exp((order - 1n) / 2n).
legendreOf(x, order) ==
    CASE x = x ->
         IF x = order - 1 THEN Ok(JsNumber(-1))
         ELSE IF x # 0 /\ x # 1 THEN Error("Legendre failed")
         ELSE Ok(NumberOfElement(x))

FqLegendre(a) == legendreOf(FqExp(a, (Q - 1) \div 2), Q)

FrLegendre(a) == legendreOf(FrExp(a, (R - 1) \div 2), R)

FrSignBigEndian(a) == a < FrNeg(a)

\* The result of inv: the inverse, or the error Fq.inv or Fr.inv threw.
InvResult(f, v) ==
    CASE v = v ->
         IF CASE f \in {"Fq", "FqBinary", "Fr"} -> v = -1 [] f = "Fq2" -> Fq2Threw(v)
              [] f = "Fq6" -> Fq6Threw(v) [] f = "Fq12" -> Fq12Threw(v)
         THEN Error("Inversion of zero") ELSE Ok(v)

\* The result of sqrt: the root, or the error sqrt or inv threw.
SqrtResult(f, v) ==
    CASE v = v ->
         IF f = "Fq" THEN IF v = -1 THEN Error("No square root exists") ELSE Ok(v)
         ELSE IF v = <<-1, -1>> THEN Error("Inversion of zero")
         ELSE IF v = <<-2, -2>> THEN Error("No square root exists") ELSE Ok(v)

(***************************************************************************)
(* Calls of the field operations.  A caller may keep the result of a call  *)
(* in buf, as <<class, element>>, and pass it to the next call.            *)
(***************************************************************************)
\* Elements 0 .. MaxElement of Fq and x + y u with x, y in 0 .. MaxElement2
\* of Fq2 are inverted, negated and rooted; mod is called with moduli
\* 1 .. MaxModulus.
MaxElement == 40

MaxElement2 == 6

MaxModulus == 5

Classes == {"Fq", "Fr", "Fq2", "Fq6", "Fq12"}

\* The operands of add, sub, mul, mulByScalar and exp.
FieldInputs(f) ==
    CASE f \in {"Fq", "FqBinary"} -> {0, 1, 2, Q - 1, 2867}
      [] f = "Fr" -> 0..(R - 1)
      [] f = "Fq2" -> {Fq2Zero, Fq2One, <<0, 1>>, <<35020, 9712>>, <<Q - 1, 5>>}
      [] f = "Fq6" -> {Fq6Zero, Fq6One, << <<1, 2>>, <<3, 4>>, <<5, 6>> >>,
                       << <<0, 1>>, <<0, 0>>, <<Q - 1, 7>> >>,
                       <<Fq2Zero, Fq2One, Fq2Zero>>, <<Fq2Zero, Fq2Zero, Fq2One>>,
                       << <<35020, 9712>>, <<Q - 1, Q - 2>>, <<27198, 1>> >>}
      [] f = "Fq12" -> {Fq12Zero, Fq12One,
                        << << <<1, 2>>, <<3, 4>>, <<5, 6>> >>,
                           << <<7, 8>>, <<9, 10>>, <<11, Q - 1>> >> >>,
                        <<Fq6Zero, << <<0, 1>>, <<0, 0>>, <<Q - 1, 7>> >> >>}

\* The operands of neg, inv and sqrt.
UnaryInputs(f) ==
    FieldInputs(f) \cup
    CASE f \in {"Fq", "FqBinary"} -> (0..MaxElement) \cup {Q - 2, (Q - 1) \div 2, 27198}
      [] f = "Fq2" -> (0..MaxElement2) \X (0..MaxElement2)
      [] OTHER -> {}

Scalars == {-Q - 1, -3, -1, 0, 1, 2, Q + 5}

Exponents == {-1, 0, 1, 2, 5, Q - 1}

UnaryOps(f) ==
    CASE f = "FqBinary" -> {"inv"}
      [] f = "Fq" -> {"neg", "inv", "sqrt", "legendre", "signBigEndian"}
      [] f = "Fr" -> {"neg", "inv", "legendre", "signBigEndian"}
      [] f = "Fq2" -> {"neg", "inv", "sqrt", "signBigEndian", "mulByNonResidue"}
      [] f = "Fq6" -> {"neg", "inv", "mulByNonResidue"}
      [] OTHER -> {"neg", "inv"}

ScalarOps(f) == IF f \in {"Fq6", "Fq12"} THEN {"exp"} ELSE {"mulByScalar", "exp"}

\* The first operand: the element the caller kept, or a new element.
FirstOperands(f, inputs) ==
    IF buf = <<>> THEN inputs ELSE IF buf[1] = f THEN {buf[2]} ELSE {}

PassElement ==
    /\ pc = "idle"
    /\ \E f \in Classes \cup {"FqBinary"} :
          \E op \in UnaryOps(f), a \in FirstOperands(f, UnaryInputs(f)) :
             call' = [op |-> op, field |-> f, a |-> a]
    /\ pc' = "called" /\ ret' = NoResult /\ buf' = buf

PassElements ==
    /\ pc = "idle"
    /\ \E f \in Classes :
          \E op \in {"add", "sub", "mul"}, a \in FirstOperands(f, FieldInputs(f)),
             b \in FieldInputs(f) :
             call' = [op |-> op, field |-> f, a |-> a, b |-> b]
    /\ pc' = "called" /\ ret' = NoResult /\ buf' = buf

PassElementAndScalar ==
    /\ pc = "idle"
    /\ \E f \in Classes :
          \E op \in ScalarOps(f), a \in FirstOperands(f, FieldInputs(f)) :
             \E c \in IF op = "exp" THEN Exponents ELSE Scalars :
                call' = [op |-> op, field |-> f, a |-> a, c |-> c]
    /\ pc' = "called" /\ ret' = NoResult /\ buf' = buf

MaxPower == 12

PassElementAndPower ==
    /\ pc = "idle" /\ buf = <<>>
    /\ \E f \in {"Fq2", "Fq6", "Fq12"}, power \in 0..MaxPower :
          \E a \in FieldInputs(f) :
             call' = [op |-> "frobeniusMap", field |-> f, a |-> a, power |-> power]
    /\ pc' = "called" /\ ret' = NoResult /\ buf' = buf

PassMod ==
    /\ pc = "idle" /\ buf = <<>>
    /\ \E n \in (-3 * MaxModulus)..(3 * MaxModulus), m \in 1..MaxModulus :
          call' = [op |-> "mod", n |-> n, m |-> m]
    /\ pc' = "called" /\ ret' = NoResult /\ buf' = buf

Add ==
    /\ pc = "called" /\ call.op = "add"
    /\ ret' = Ok(FieldAdd(call.field, call.a, call.b))
    /\ pc' = "done" /\ call' = call /\ buf' = buf

Sub ==
    /\ pc = "called" /\ call.op = "sub"
    /\ ret' = Ok(FieldSub(call.field, call.a, call.b))
    /\ pc' = "done" /\ call' = call /\ buf' = buf

Neg ==
    /\ pc = "called" /\ call.op = "neg"
    /\ ret' = Ok(FieldNeg(call.field, call.a))
    /\ pc' = "done" /\ call' = call /\ buf' = buf

Mul ==
    /\ pc = "called" /\ call.op = "mul"
    /\ ret' = Ok(FieldMul(call.field, call.a, call.b))
    /\ pc' = "done" /\ call' = call /\ buf' = buf

MulByScalar ==
    /\ pc = "called" /\ call.op = "mulByScalar"
    /\ ret' = Ok(FieldMulByScalar(call.field, call.a, call.c))
    /\ pc' = "done" /\ call' = call /\ buf' = buf

Inv ==
    /\ pc = "called" /\ call.op = "inv"
    /\ ret' = InvResult(call.field, FieldInv(call.field, call.a))
    /\ pc' = "done" /\ call' = call /\ buf' = buf

Exp ==
    /\ pc = "called" /\ call.op = "exp"
    /\ ret' = Ok(FieldExp(call.field, call.a, call.c))
    /\ pc' = "done" /\ call' = call /\ buf' = buf

Sqrt ==
    /\ pc = "called" /\ call.op = "sqrt"
    /\ ret' = SqrtResult(call.field, FieldSqrt(call.field, call.a))
    /\ pc' = "done" /\ call' = call /\ buf' = buf

Mod ==
    /\ pc = "called" /\ call.op = "mod"
    /\ ret' = Ok(mod(call.n, call.m))
    /\ pc' = "done" /\ call' = call /\ buf' = buf

legendre ==
    /\ pc = "called" /\ call.op = "legendre"
    /\ ret' = (IF call.field = "Fq" THEN FqLegendre(call.a) ELSE FrLegendre(call.a))
    /\ pc' = "done" /\ call' = call /\ buf' = buf

FrobeniusMap ==
    /\ pc = "called" /\ call.op = "frobeniusMap"
    /\ ret' = Ok(FieldFrobeniusMap(call.field, call.a, call.power))
    /\ pc' = "done" /\ call' = call /\ buf' = buf

MulByNonResidue ==
    /\ pc = "called" /\ call.op = "mulByNonResidue"
    /\ ret' = Ok(IF call.field = "Fq2" THEN Fq2MulByNonResidue(call.a)
                 ELSE Fq6MulByNonResidue(call.a))
    /\ pc' = "done" /\ call' = call /\ buf' = buf

SignBigEndian ==
    /\ pc = "called" /\ call.op = "signBigEndian"
    /\ ret' = Ok(CASE call.field = "Fq" -> FqSignBigEndian(call.a)
                   [] call.field = "Fr" -> FrSignBigEndian(call.a)
                   [] call.field = "Fq2" -> Fq2SignBigEndian(call.a))
    /\ pc' = "done" /\ call' = call /\ buf' = buf

\* The caller keeps the element a first call returned.
Keep ==
    /\ pc = "done" /\ buf = <<>>
    /\ call.op \in {"add", "sub", "neg", "mul", "mulByScalar", "inv", "exp", "sqrt"}
    /\ call.field # "FqBinary"
    /\ ret.kind = "ok"
    /\ buf' = <<call.field, ret.val>>
    /\ pc' = "idle" /\ call' = NoCall /\ ret' = NoResult

NextField ==
    \/ PassElement \/ PassElements \/ PassElementAndScalar \/ PassElementAndPower
    \/ PassMod
    \/ Add \/ Sub \/ Neg \/ Mul \/ MulByScalar \/ Inv \/ Exp \/ Sqrt \/ Mod
    \/ legendre \/ SignBigEndian \/ MulByNonResidue \/ FrobeniusMap
    \/ Keep \/ Return

SpecField == Init /\ [][NextField]_vars

(***************************************************************************)
(* Properties of the field operations.                                     *)
(***************************************************************************)
\* C16: for every non-zero element a of Fq (with either gcd), Fr, Fq2, Fq6
\* and Fq12, a.inv() returns b with a * b = 1 and b.inv() = a; the inverse
\* of zero fails with 'Inversion of zero'.
C16_InverseOrInversionOfZero ==
    (pc = "done" /\ call.op = "inv")
    => IF call.a = FieldZero(call.field) THEN ret = Error("Inversion of zero")
       ELSE /\ ret.kind = "ok"
            /\ FieldMul(call.field, call.a, ret.val) = FieldOne(call.field)
            /\ FieldInv(call.field, ret.val) = call.a

\* An element of Fq12 other than 0 and 1 was inverted, and an element of
\* the earlier class Fq.
C16_Witness ==
    /\ pc = "done" /\ call.op = "inv" /\ ret.kind = "ok"
    /\ \/ call.field = "Fq12" /\ call.a # Fq12One
       \/ call.field = "FqBinary" /\ call.a = 2867 /\ ret.val = 26519

\* The Legendre symbol of a: a^((Q - 1) / 2) in Fq; in Fq2 the symbol of the
\* norm x^2 + y^2 of a = x + y u in Fq.
Legendre(f, a) ==
    IF f = "Fq" THEN FqExp(a, (Q - 1) \div 2)
    ELSE FqExp(FqAdd(FqMul(a[1], a[1]), FqMul(a[2], a[2])), (Q - 1) \div 2)

\* C17: in Fq and Fq2, sqrt(a) returns s with s * s = a when the Legendre
\* symbol of a is 1, and fails with 'No square root exists' for every other
\* a, zero included.
C17_SqrtOrNoSquareRoot ==
    (pc = "done" /\ call.op = "sqrt")
    => IF Legendre(call.field, call.a) = 1
       THEN ret.kind = "ok" /\ FieldMul(call.field, ret.val, ret.val) = call.a
       ELSE ret = Error("No square root exists")

CoordinatesOf(f, v) ==
    CASE f \in {"Fq", "FqBinary", "Fr"} -> {v}
      [] f = "Fq2" -> {v[i] : i \in 1..2}
      [] f = "Fq6" -> {v[i][j] : i \in 1..3, j \in 1..2}
      [] f = "Fq12" -> {v[i][j][k] : i \in 1..2, j \in 1..3, k \in 1..2}

\* C18: every coordinate of an element that add, sub, neg, mul, mulByScalar,
\* inv, exp or sqrt returned lies in 0 .. Q - 1 (in 0 .. R - 1 for Fr), and
\* mod(n, m) lies in 0 .. m - 1.
C18_CoordinatesReduced ==
    (pc = "done" /\ ret.kind = "ok")
    => /\ call.op = "mod" => ret.val \in 0..(call.m - 1)
       /\ call.op \in {"add", "sub", "neg", "mul", "mulByScalar", "inv", "exp", "sqrt"}
          => CoordinatesOf(call.field, ret.val)
                \subseteq 0..((IF call.field = "Fr" THEN R ELSE Q) - 1)

\* A kept element of Fq2 was multiplied by a negative scalar, and mod was
\* called on a negative number.
C18_Witness ==
    /\ pc = "done" /\ ret.kind = "ok"
    /\ \/ call.op = "mulByScalar" /\ call.field = "Fq2" /\ call.c < 0 /\ buf # <<>>
          /\ call.a \notin {Fq2Zero, Fq2One}
       \/ call.op = "mod" /\ call.n < 0 /\ ret.val > 0

\* The Legendre symbol of a in the prime field of the given order, from the
\* definition: 0 for zero, 1 for a non-zero square, -1 otherwise.
IsSquareIn(f, a) ==
    IF f = "Fq" THEN \E b \in 1..(Q - 1) : mulmodp(b, b) = a
    ELSE \E b \in 1..(R - 1) : (b * b) % R = a

LegendreSymbol(f, a) ==
    IF a = 0 THEN 0 ELSE IF IsSquareIn(f, a) THEN 1 ELSE -1

\* C27: Fq.legendre() and Fr.legendre() never fail and return the Legendre
\* symbol as a number: 1 for a non-zero square, -1 for a non-residue, 0 for
\* zero.
C27_LegendreSymbol ==
    (pc = "done" /\ call.op = "legendre")
    => ret = Ok(JsNumber(LegendreSymbol(call.field, call.a)))

\* C29: for every non-zero a of Fq2 exactly one of a.signBigEndian() and
\* a.neg().signBigEndian() is true, and the root Fq2.sqrt returns is the
\* candidate whose signBigEndian() is false.
C29_SignSeparatesRoots ==
    /\ (pc = "done" /\ call.op = "signBigEndian" /\ call.field = "Fq2"
        /\ call.a # Fq2Zero)
       => (ret.val # Fq2SignBigEndian(Fq2Neg(call.a)))
    /\ (pc = "done" /\ call.op = "sqrt" /\ call.field = "Fq2" /\ ret.kind = "ok")
       => ~Fq2SignBigEndian(ret.val)

\* The non-residue 1 + u of Fq2, and the element v of Fq6 with v^3 = 1 + u.
NonResidue == <<1, 1>>

Fq6V == <<Fq2Zero, Fq2One, Fq2Zero>>

\* The product of x + y v + z v^2 and x' + y' v + z' v^2, term by term, with
\* v^3 and v^4 replaced by (1 + u) and (1 + u) v.
Schoolbook(a, b) ==
    <<Fq2Add(Fq2Mul(a[1], b[1]),
             Fq2Mul(NonResidue, Fq2Add(Fq2Mul(a[2], b[3]), Fq2Mul(a[3], b[2])))),
      Fq2Add(Fq2Add(Fq2Mul(a[1], b[2]), Fq2Mul(a[2], b[1])),
             Fq2Mul(NonResidue, Fq2Mul(a[3], b[3]))),
      Fq2Add(Fq2Add(Fq2Mul(a[1], b[3]), Fq2Mul(a[2], b[2])), Fq2Mul(a[3], b[1]))>>

\* C25: Fq6.mul equals the schoolbook product of the two polynomials in v
\* reduced with v^3 = 1 + u; Fq2.mulByNonResidue(a) is a * (1 + u); and
\* Fq6.mulByNonResidue of (x, y, z) is ((1 + u) z, x, y), the product by v.
C25_MulIsSchoolbook ==
    /\ (pc = "done" /\ call.op = "mul" /\ call.field = "Fq6")
       => ret = Ok(Schoolbook(call.a, call.b))
    /\ (pc = "done" /\ call.op = "mulByNonResidue" /\ call.field = "Fq2")
       => ret = Ok(Fq2Mul(call.a, NonResidue))
    /\ (pc = "done" /\ call.op = "mulByNonResidue" /\ call.field = "Fq6")
       => /\ ret = Ok(<<Fq2Mul(NonResidue, call.a[3]), call.a[1], call.a[2]>>)
          /\ ret = Ok(Schoolbook(call.a, Fq6V))

\* Fq6.mul returned the product of two elements none of whose six
\* coefficients is zero.
C25_Witness ==
    /\ pc = "done" /\ call.op = "mul" /\ call.field = "Fq6"
    /\ \A i \in 1..3 : call.a[i] # Fq2Zero /\ call.b[i] # Fq2Zero
    /\ call.a # call.b
    /\ ret = Ok(Schoolbook(call.a, call.b))

\* a^(Q^k), by k exponentiations to the power Q.
RECURSIVE QPower(_, _, _)
QPower(f, a, k) ==
    IF k = 0 THEN a
    ELSE LET b == QPower(f, a, k - 1) IN CASE b = b -> FieldExp(f, b, Q)

\* The degree over Fq of the class f.
Degree(f) == CASE f = "Fq2" -> 2 [] f = "Fq6" -> 6 [] f = "Fq12" -> 12

\* C26: at each level of the tower frobeniusMap(k) returns a^(Q^k), is
\* multiplicative, and is the identity for k the degree of the level: 2 on
\* Fq2, 6 on Fq6, 12 on Fq12.
C26_FrobeniusIsQPower ==
    (pc = "done" /\ call.op = "frobeniusMap") =>
        /\ ret = Ok(QPower(call.field, call.a, call.power))
        /\ \A b \in FieldInputs(call.field) :
              FieldFrobeniusMap(call.field, FieldMul(call.field, call.a, b), call.power)
              = FieldMul(call.field, ret.val,
                         FieldFrobeniusMap(call.field, b, call.power))
        /\ call.power = Degree(call.field) => ret.val = call.a

\* frobeniusMap(1) of an element of Fq12 returned its Q-th power, which is
\* not the element.
C26_Witness ==
    /\ pc = "done" /\ call.op = "frobeniusMap" /\ call.field = "Fq12"
    /\ call.power = 1
    /\ ret.val # call.a
    /\ ret.val = Fq12Exp(call.a, Bits(Q))

(***************************************************************************)
(* Random field elements: rejection sampling of a uniform integer below a  *)
(* multiple of the modulus.  The widths are in bits and scaled with the    *)
(* moduli: randomFr draws fewer bits than r has (31 bytes = 248 bits for   *)
(* the 255-bit r), randomFq draws more bits than q has (48 bytes = 384     *)
(* bits for the 381-bit q).                                                *)
(***************************************************************************)
\* The width of the draw of randomFr: 2^FrRandomBits < R.
FrRandomBits == 3

\* The width of the draw of randomFq: 2^FqRandomBits > Q.
FqRandomBits == 16

RECURSIVE pow2(_)
pow2(n) == IF n = 0 THEN 1 ELSE 2 * pow2(n - 1)

\* 2n ** BigInt(bytes * 8)
randUpperBound(bits) == pow2(bits)

\* The largest multiple of p that the draw can exceed; both operands of %
\* are positive.
upperBound(bits, p) == randUpperBound(bits) - (randUpperBound(bits) % p)

\* The value a helper builds from the integers its calls of
\* randomBigIntModP returned, in the order of the calls.
randomFrOf(vals) == Fr(vals[1])

randomFqOf(vals, i) == Fq(vals[i])

randomFq2Of(vals, i) == <<randomFqOf(vals, i), randomFqOf(vals, i + 1)>>

randomFq6Of(vals, i) ==
    <<randomFq2Of(vals, i), randomFq2Of(vals, i + 2), randomFq2Of(vals, i + 4)>>

randomFq12Of(vals) == <<randomFq6Of(vals, 1), randomFq6Of(vals, 7)>>

randomValue(op, vals) ==
    CASE op = "randomFr" -> randomFrOf(vals)
      [] op = "randomFq" -> randomFqOf(vals, 1)
      [] op = "randomFq2" -> randomFq2Of(vals, 1)
      [] op = "randomFq6" -> randomFq6Of(vals, 1)
      [] op = "randomFq12" -> randomFq12Of(vals)
      [] op = "randomBigIntModP" -> vals[1]

(***************************************************************************)
(* The random helpers as a state machine: buf holds the integers accepted  *)
(* so far and, between a draw and the test of the while loop, the integer  *)
(* just drawn.                                                             *)
(***************************************************************************)
MaxBits == 4

MaxP == 20

\* Every integer of a narrow draw; of a wide draw the least and the greatest
\* integer and the two around the bound of the loop.
MaxDraws == 16

Draws(bits, p) ==
    IF randUpperBound(bits) <= MaxDraws
    THEN 0 .. (randUpperBound(bits) - 1)
    ELSE {0, upperBound(bits, p) - 1, upperBound(bits, p),
          randUpperBound(bits) - 1}

RandomCalls ==
    {[op |-> "randomFr", bits |-> FrRandomBits, p |-> R, count |-> 1],
     [op |-> "randomFq", bits |-> FqRandomBits, p |-> Q, count |-> 1],
     [op |-> "randomFq2", bits |-> FqRandomBits, p |-> Q, count |-> 2],
     [op |-> "randomFq6", bits |-> FqRandomBits, p |-> Q, count |-> 6],
     [op |-> "randomFq12", bits |-> FqRandomBits, p |-> Q, count |-> 12]}
    \cup {[op |-> "randomBigIntModP", bits |-> bits, p |-> p, count |-> 1] :
            bits \in 1 .. MaxBits, p \in 1 .. MaxP}

PassRandom ==
    /\ pc = "idle" /\ buf = <<>>
    /\ call' \in RandomCalls
    /\ pc' = "called"
    /\ UNCHANGED <<ret, buf>>

\* rand = randomBigInt(bytes)
RandomBigIntIs(rand) ==
    /\ pc = "called"
    /\ buf' = Append(buf, rand)
    /\ pc' = "drawn"
    /\ UNCHANGED <<call, ret>>

RandomBigInt ==
    /\ pc = "called"
    /\ \E rand \in Draws(call.bits, call.p) : RandomBigIntIs(rand)

\* A draw that the loop accepts.
RandomBigIntBelowBound ==
    /\ pc = "called"
    /\ \E rand \in Draws(call.bits, call.p) :
           rand < upperBound(call.bits, call.p) /\ RandomBigIntIs(rand)

\* The test of the while loop: a draw at or above the bound is dropped and
\* the loop draws again; a draw below it is returned to the helper, which
\* calls again until it has all its coordinates and then returns.
RandomBigIntModP ==
    /\ pc = "drawn"
    /\ IF buf[Len(buf)] >= upperBound(call.bits, call.p)
       THEN /\ buf' = SubSeq(buf, 1, Len(buf) - 1)
            /\ pc' = "called"
            /\ UNCHANGED ret
       ELSE IF Len(buf) < call.count
       THEN /\ pc' = "called"
            /\ UNCHANGED <<ret, buf>>
       ELSE /\ ret' = Ok(randomValue(call.op, buf))
            /\ pc' = "done"
            /\ UNCHANGED buf
    /\ UNCHANGED call

NextRandom == PassRandom \/ RandomBigInt \/ RandomBigIntModP \/ Return

SpecRandom == Init /\ [][NextRandom]_vars

\* A fair random source: the program keeps running, and a draw below the
\* bound, if one exists, is not withheld forever.
FairSpecRandom ==
    SpecRandom /\ WF_vars(NextRandom) /\ SF_vars(RandomBigIntBelowBound)

\* The helpers the library exports without parameters.
RandomHelpers ==
    {"randomFr", "randomFq", "randomFq2", "randomFq6", "randomFq12"}

\* C19: under a fair random source every call of randomFr, and of every other
\* random helper, returns: the rejection loop ends after finitely many draws,
\* and randomFr returns an element of Fr.
C19_RandomTerminates ==
    (pc = "called" /\ call.op \in RandomHelpers)
        ~> (pc = "done" /\ ret.kind = "ok"
            /\ (call.op = "randomFr" => ret.val \in 0 .. (R - 1)))

\* C30: whenever randomBigIntModP(bytes, p) returns, the value it returns is
\* in [0, p).
C30_ResultBelowModulus ==
    (pc = "done" /\ call.op = "randomBigIntModP")
    => ret.val \in 0 .. (call.p - 1)

(***************************************************************************)
(* The witness residue check.  lambda = 3 * 17^2 * R = 11271, a multiple   *)
(* of R prime to (Q^12 - 1) / (27 * 17 * R), as the library's lambda is    *)
(* 3 * p^2 * r; the exponent is held as its bits, least significant first. *)
(***************************************************************************)
lambda == <<1, 1, 1, 0, 0, 0, 0, 0, 0, 0, 1, 1, 0, 1>>

\* A check that accepts every witness.
verifyAcceptsAll(fs, c, wi) == Ok(TRUE)

\* c_inv.exp(lambda).mul(f).mul(wi).equals(Fq12.one()), or the exception of
\* c.inv() passing through.
verifyEquivalentPairingsOf(f, c_inv, wi) ==
    CASE f = f /\ c_inv = c_inv ->
         IF Fq12Threw(c_inv) THEN Error("Inversion of zero")
         ELSE Ok(Fq12equals(Fq12Mul(Fq12Mul(Fq12Exp(c_inv, lambda), f), wi), Fq12One))

verifyEquivalentPairings(fs, c, wi) ==
    verifyEquivalentPairingsOf(Fq12Mul(fs[1], fs[2]), Fq12Inv(c), wi)

(***************************************************************************)
(* The witness residue: (c, wi) with c^lambda = f * wi.  The cofactor      *)
(* h = (Q^12 - 1) / R is 27 * 17 * h3 with h3 prime to 3 and 17, as the    *)
(* library's h is 27 * p * h3; exponents wider than an integer are held as *)
(* their bits, least significant first.                                    *)
(***************************************************************************)
\* p of the witness construction.
witnessPrime == 17

\* 27n * h3
h3Times27 ==
    <<
    0, 0, 0, 0, 1, 0, 1, 1, 1, 1, 0, 0, 0, 0, 0, 1, 0, 1, 1, 0, 0, 0, 0, 1, 1, 1, 0, 0, 0, 1, 1, 1,
    1, 1, 1, 0, 0, 0, 0, 0, 0, 1, 0, 0, 1, 0, 1, 0, 1, 1, 0, 1, 1, 0, 0, 0, 0, 1, 1, 0, 1, 1, 1, 1,
    1, 1, 1, 1, 1, 0, 1, 1, 1, 1, 0, 1, 0, 1, 0, 1, 0, 0, 1, 1, 0, 0, 1, 0, 1, 0, 1, 0, 1, 1, 1, 0,
    0, 1, 0, 0, 0, 0, 0, 0, 1, 1, 1, 0, 1, 0, 0, 0, 0, 0, 0, 0, 0, 0, 0, 1, 1, 0, 1, 0, 1, 1, 1, 0,
    1, 0, 0, 0, 1, 1, 1, 0, 1, 0, 0, 0, 1, 0, 0, 0, 1, 1, 0, 1, 0, 1, 1, 0, 1, 1, 1, 0, 0, 0, 1, 1,
    1, 1, 0, 1, 1, 1, 0, 0, 1, 1, 1, 1, 0, 1, 1, 0, 1, 1, 1, 1, 0, 1, 0, 1 >>

\* p * h3
pTimesH3 ==
    <<
    0, 0, 0, 0, 1, 1, 1, 0, 1, 1, 1, 1, 0, 1, 1, 0, 1, 0, 0, 1, 1, 0, 1, 1, 1, 1, 1, 1, 1, 0, 1, 0,
    0, 0, 1, 0, 1, 1, 0, 0, 1, 1, 1, 0, 1, 0, 0, 0, 0, 1, 0, 1, 0, 0, 1, 0, 0, 0, 0, 0, 1, 1, 1, 1,
    0, 1, 0, 0, 1, 1, 0, 1, 1, 0, 1, 0, 1, 1, 1, 0, 1, 0, 0, 0, 1, 0, 1, 1, 0, 0, 1, 1, 1, 0, 1, 0,
    0, 0, 0, 0, 0, 1, 1, 0, 1, 1, 1, 0, 0, 0, 1, 0, 0, 1, 1, 1, 0, 0, 0, 0, 0, 0, 1, 0, 0, 1, 0, 0,
    1, 1, 1, 1, 1, 0, 1, 1, 1, 1, 0, 0, 0, 0, 1, 0, 1, 1, 1, 1, 0, 0, 0, 1, 1, 0, 1, 1, 1, 1, 1, 0,
    1, 0, 0, 0, 1, 1, 1, 0, 1, 0, 1, 0, 1, 1, 1, 0, 0, 1, 1, 1, 0, 1, 1 >>

\* modinv(lambda, h3)
modinvLambdaH3 ==
    <<
    1, 1, 1, 0, 1, 1, 1, 0, 0, 0, 1, 1, 0, 1, 0, 0, 1, 1, 1, 1, 1, 1, 1, 1, 0, 0, 1, 0, 0, 1, 0, 0,
    0, 1, 1, 1, 0, 0, 0, 1, 0, 1, 1, 0, 0, 1, 1, 1, 0, 1, 1, 1, 0, 1, 0, 1, 1, 1, 1, 1, 1, 1, 1, 0,
    0, 1, 1, 1, 1, 0, 0, 1, 0, 0, 1, 1, 0, 1, 0, 0, 0, 0, 0, 0, 1, 1, 0, 0, 1, 0, 0, 0, 1, 0, 1, 1,
    0, 0, 0, 1, 0, 1, 1, 1, 0, 1, 0, 0, 0, 1, 0, 1, 1, 1, 0, 1, 0, 1, 0, 0, 0, 0, 1, 0, 0, 1, 1, 1,
    0, 0, 1, 1, 0, 1, 1, 0, 0, 0, 0, 1, 1, 0, 0, 0, 1, 1, 0, 0, 1, 1, 0, 1, 0, 0, 1, 0, 1, 1, 0, 0,
    0, 1, 1, 1, 1, 0, 0, 0, 0, 0, 1, 0, 0, 1, 0, 1, 1, 1 >>

\* The residue of 27n * h3 modulo p, and of p * h3 modulo 27: modinv sees the
\* exponent through its residue, which has the same inverse.
h3Times27ModP == 14

pTimesH3Mod27 == 4

RECURSIVE egcd(_, _)
egcd(a, b) ==
    IF a = 0 THEN <<b, 0, 1>>
    ELSE LET t == egcd(mod(b, a), a)
         IN <<t[1], t[3] - (b \div a) * t[2], t[2]>>

\* -1 when the inverse does not exist (the call throws).
modinvOf(t, m) == IF t[1] # 1 THEN -1 ELSE mod(t[2], m)

modinv(a, m) == modinvOf(egcd(a, m), m)

\* wj is x.exp(27n * h3).
getPthRootInverseOf(wj) ==
    CASE wj = wj ->
         IF Fq12equals(wj, Fq12One) THEN Fq12One
         ELSE Fq12Exp(wj, Bits(mod(-modinv(h3Times27ModP, witnessPrime), witnessPrime)))

getPthRootInverse(x) == getPthRootInverseOf(Fq12Exp(x, h3Times27))

\* y is x.exp(p * h3); -1 when the call throws 'Invalid'.
getOrderOf3rdPrimitiveRootOf(y) ==
    CASE y = y ->
         IF Fq12equals(y, Fq12One) THEN 0
         ELSE IF Fq12equals(Fq12Exp(y, Bits(3)), Fq12One) THEN 1
         ELSE IF Fq12equals(Fq12Exp(y, Bits(9)), Fq12One) THEN 2
         ELSE IF Fq12equals(Fq12Exp(y, Bits(27)), Fq12One) THEN 3
         ELSE -1

getOrderOf3rdPrimitiveRoot(x) == getOrderOf3rdPrimitiveRootOf(Fq12Exp(x, pTimesH3))

\* wj is x.exp(p * h3) and pw its order; Fq12Error when the order detection
\* threw.
getAny27thRootInverseOf(wj, pw) ==
    CASE pw = pw ->
         IF pw = -1 THEN Fq12Error
         ELSE IF pw = 0 THEN Fq12One
         ELSE Fq12Exp(wj, Bits(mod(-modinv(mod(pTimesH3Mod27, 3^pw), 3^pw), 3^pw)))

getAny27thRootInverseWith(wj) ==
    CASE wj = wj -> getAny27thRootInverseOf(wj, getOrderOf3rdPrimitiveRootOf(wj))

getAny27thRootInverse(x) == getAny27thRootInverseWith(Fq12Exp(x, pTimesH3))

\* No root is taken: the element itself.
h3OrdElementItself(x) == x

h3OrdElementLambdaRoot(x) == Fq12Exp(x, modinvLambdaH3)

\* The two assertions, the inversion of c and the return.
computeWitnessCheck(f, wi, f_shifted, c, c_inv) ==
    CASE c = c /\ c_inv = c_inv ->
         IF ~Fq12equals(f_shifted, Fq12Exp(c, lambda))
         THEN Error("Computation failed")
         ELSE IF Fq12Threw(c_inv) THEN Error("Inversion of zero")
         ELSE IF ~Fq12equals(Fq12Mul(Fq12Mul(Fq12Exp(c_inv, lambda), f), wi), Fq12One)
         THEN Error("Witness residue check failed")
         ELSE Ok([c |-> c, wi |-> wi])

computeWitnessRoot(f, wi, f_shifted, c) ==
    CASE c = c -> computeWitnessCheck(f, wi, f_shifted, c, Fq12Inv(c))

computeWitnessShifted(f, wi, f_shifted) ==
    CASE f_shifted = f_shifted ->
         computeWitnessRoot(f, wi, f_shifted, h3OrdElementLambdaRoot(f_shifted))

\* A computeWitness that neither detects the order nor asserts: it returns
\* the root it computed, whatever f is.
computeWitnessNoChecks(f, wp_shift, w27_shift) ==
    Ok([c |-> h3OrdElementLambdaRoot(Fq12Mul(f, Fq12Mul(wp_shift, w27_shift))),
        wi |-> Fq12Mul(wp_shift, w27_shift)])

computeWitnessOf(f, wp_shift, w27_shift) ==
    CASE wp_shift = wp_shift /\ w27_shift = w27_shift ->
         IF Fq12Threw(w27_shift) THEN Error("Invalid")
         ELSE computeWitnessShifted(f, Fq12Mul(wp_shift, w27_shift),
                                    Fq12Mul(f, Fq12Mul(wp_shift, w27_shift)))

computeWitness(f) == computeWitnessOf(f, getPthRootInverse(f), getAny27thRootInverse(f))

(***************************************************************************)
(* verifyEquivalentPairings as a state machine.                            *)
(***************************************************************************)
\* 1 + w, its inverse, 1 + v and u, as elements of Fq12.
WitnessElements ==
    {Fq12Zero, Fq12One,
     <<Fq6One, Fq6One>>,
     <<(<<(<<0, 1>>), (<<0, 1>>), (<<0, 1>>)>>),
       (<<(<<0, 62730>>), (<<0, 62730>>), (<<0, 62730>>)>>)>>,
     <<(<<Fq2One, Fq2One, Fq2Zero>>), Fq6Zero>>,
     <<(<<(<<0, 1>>), Fq2Zero, Fq2Zero>>), Fq6Zero>>}

PassWitness ==
    /\ pc = "idle" /\ buf = <<>>
    /\ \E p \in WitnessElements, q \in WitnessElements,
          c \in WitnessElements, wi \in WitnessElements :
          call' = [op |-> "verifyEquivalentPairings", fs |-> <<p, q>>,
                   c |-> c, wi |-> wi]
    /\ pc' = "called"
    /\ UNCHANGED <<ret, buf>>

VerifyEquivalentPairings ==
    /\ pc = "called" /\ call.op = "verifyEquivalentPairings"
    /\ ret' = verifyEquivalentPairings(call.fs, call.c, call.wi)
    /\ pc' = "done"
    /\ UNCHANGED <<call, buf>>

\* 0, 1, two elements that are no R-th residues (1 + w and a generic one), and
\* R-th residues whose orders hold different powers of 3 and of 17: 2, 3,
\* 1 + 2u, u, 1 + v and w.
WitnessAccumulators ==
    {Fq12Zero, Fq12One,
     <<Fq6One, Fq6One>>,
     <<(<<(<<1, 2>>), (<<3, 4>>), (<<5, 6>>)>>),
       (<<(<<7, 8>>), (<<9, 10>>), (<<11, 12>>)>>)>>,
     <<(<<(<<2, 0>>), Fq2Zero, Fq2Zero>>), Fq6Zero>>,
     <<(<<(<<3, 0>>), Fq2Zero, Fq2Zero>>), Fq6Zero>>,
     <<(<<(<<1, 2>>), Fq2Zero, Fq2Zero>>), Fq6Zero>>,
     <<(<<(<<0, 1>>), Fq2Zero, Fq2Zero>>), Fq6Zero>>,
     <<(<<Fq2One, Fq2One, Fq2Zero>>), Fq6Zero>>,
     <<Fq6Zero, Fq6One>>}

PassAccumulator ==
    /\ pc = "idle" /\ buf = <<>>
    /\ \E f \in WitnessAccumulators : call' = [op |-> "computeWitness", f |-> f]
    /\ pc' = "called"
    /\ UNCHANGED <<ret, buf>>

ComputeWitness ==
    /\ pc = "called" /\ call.op = "computeWitness"
    /\ ret' = computeWitness(call.f)
    /\ pc' = "done"
    /\ UNCHANGED <<call, buf>>

\* The caller keeps the accumulator and the witness computeWitness returned
\* for it: buf = <<f, c, wi>>.
KeepWitness ==
    /\ pc = "done" /\ call.op = "computeWitness" /\ ret.kind = "ok"
    /\ buf' = <<call.f, ret.val.c, ret.val.wi>>
    /\ pc' = "idle" /\ call' = NoCall /\ ret' = NoResult

\* First factors of the accumulator: 1, 2, 1 + v and a generic element.
WitnessFactors ==
    {Fq12One,
     <<(<<(<<2, 0>>), Fq2Zero, Fq2Zero>>), Fq6Zero>>,
     <<(<<Fq2One, Fq2One, Fq2Zero>>), Fq6Zero>>,
     <<(<<(<<1, 2>>), (<<3, 4>>), (<<5, 6>>)>>),
       (<<(<<7, 8>>), (<<9, 10>>), (<<11, 12>>)>>)>>}

\* The second factors passed with the first factor p: f / p for the
\* accumulator f the witness was computed for, and other elements.
SecondFactors(f, p_inv) ==
    IF Fq12Threw(p_inv) THEN WitnessElements
    ELSE {Fq12Mul(f, p_inv)} \cup WitnessElements

\* verifyEquivalentPairings is called with the kept witness and two factors.
PassFactors ==
    /\ pc = "idle" /\ buf # <<>>
    /\ \E p \in WitnessFactors :
          \E q \in SecondFactors(buf[1], Fq12Inv(p)) :
             call' = [op |-> "verifyEquivalentPairings", fs |-> <<p, q>>,
                      c |-> buf[2], wi |-> buf[3]]
    /\ pc' = "called"
    /\ UNCHANGED <<ret, buf>>

NextWitness ==
    \/ PassWitness \/ VerifyEquivalentPairings
    \/ PassAccumulator \/ ComputeWitness
    \/ KeepWitness \/ PassFactors
    \/ Return

SpecWitness == Init /\ [][NextWitness]_vars

\* C20: verifyEquivalentPairings(<<p, q>>, c, wi) returns true only if
\* (p * q)^h = 1 for h = (Q^12 - 1) / R, whatever c and wi the caller passes.
C20_VerifySound ==
    (pc = "done" /\ call.op = "verifyEquivalentPairings" /\ ret = Ok(TRUE))
        => Fq12equals(Fq12Exp(Fq12Mul(call.fs[1], call.fs[2]), FinalExponent),
                      Fq12One)

\* verifyEquivalentPairings returned on a witness computeWitness returned.
VerifiedKeptWitness ==
    pc = "done" /\ call.op = "verifyEquivalentPairings" /\ buf # <<>>

\* C6: for every f with f^h = 1, h = (Q^12 - 1) / R, computeWitness(f)
\* returns, without failing an assertion, a pair (c, wi) with
\* c^lambda = f * wi, and verifyEquivalentPairings called with two factors
\* whose product is f and with that (c, wi) returns true.
C6_WitnessOfResidueVerifies ==
    /\ (/\ pc = "done" /\ call.op = "computeWitness"
        /\ Fq12equals(Fq12Exp(call.f, FinalExponent), Fq12One))
       => /\ ret.kind = "ok"
          /\ Fq12equals(Fq12Exp(ret.val.c, lambda), Fq12Mul(call.f, ret.val.wi))
    /\ (VerifiedKeptWitness /\ Fq12Mul(call.fs[1], call.fs[2]) = buf[1])
       => ret = Ok(TRUE)

\* A witness with a scaling other than 1 was verified with two factors,
\* neither of them 1, whose product is the accumulator.
C6_Witness ==
    /\ VerifiedKeptWitness
    /\ Fq12Mul(call.fs[1], call.fs[2]) = buf[1]
    /\ call.fs[1] # Fq12One /\ call.fs[2] # Fq12One
    /\ buf[3] # Fq12One
    /\ ret = Ok(TRUE)

\* C7: with (c, wi) = computeWitness(f), verifyEquivalentPairings called
\* with factors whose product is not f returns false.
C7_TamperedAccumulatorRejected ==
    (VerifiedKeptWitness /\ Fq12Mul(call.fs[1], call.fs[2]) # buf[1])
       => ret = Ok(FALSE)

\* The witness of an accumulator was rejected for two factors, both
\* invertible, whose product is another element.
C7_Witness ==
    /\ VerifiedKeptWitness
    /\ Fq12Mul(call.fs[1], call.fs[2]) # buf[1]
    /\ call.fs[1] # Fq12One /\ call.fs[2] # Fq12Zero
    /\ buf[3] # Fq12One
    /\ ret = Ok(FALSE)

\* C21: computeWitness(f) returns a witness only if f^(27 * p * h3) = 1, the
\* exponent being h = (Q^12 - 1) / R; for every other f the call fails.
C21_WitnessOnlyForResidues ==
    (pc = "done" /\ call.op = "computeWitness" /\ ret.kind = "ok")
        => Fq12equals(Fq12Exp(call.f, FinalExponent), Fq12One)

\* computeWitness failed on an invertible f that is no R-th residue.
C21_Witness ==
    /\ pc = "done" /\ call.op = "computeWitness"
    /\ call.f = <<Fq6One, Fq6One>>
    /\ ret = Error("Invalid")
    /\ ~Fq12equals(Fq12Exp(call.f, FinalExponent), Fq12One)

\* C22 (amended): the copy of expandMsgXmd with the loop bound i <= ell and
\* the copy with the bound i < ell and a final write return the same result
\* for every dst, msg and length L >= 1, the stream b_1 || ... || b_ell of
\* the 128-byte regression included; they differ for L = 0 only, where the
\* first returns the empty stream and the second fails.
C22_VariantsAgree ==
    (pc = "done" /\ call.op = "expandMsgXmdInclusive")
    => IF call.byteLength = 0 /\ Len(call.dst) <= 255
       THEN /\ ret = Ok(<<>>)
            /\ expandMsgXmd(call.dst, call.msg, call.byteLength)
                  = Error("offset is out of bounds")
       ELSE ret = expandMsgXmd(call.dst, call.msg, call.byteLength)

\* The copy with the bound i <= ell returned the 128 bytes b_1 || ... || b_4.
C22_Witness ==
    /\ pc = "done" /\ call.op = "expandMsgXmdInclusive"
    /\ call.byteLength = RegressionLength
    /\ ret.kind = "ok" /\ Len(ret.val) = RegressionLength
    /\ ret.val = RfcUniformBytes(call.dst, call.msg, RegressionLength)

\* C22: where the copy with the bound i < ell returns the expected stream
\* b_1 || ... || b_ell, the copy with the bound i <= ell returns a different
\* stream.
C22_OnlyExclusiveLoopMatches ==
    (/\ pc = "done" /\ call.op = "expandMsgXmdInclusive"
     /\ expandMsgXmd(call.dst, call.msg, call.byteLength)
           = Ok(RfcUniformBytes(call.dst, call.msg, call.byteLength)))
    => ret # Ok(RfcUniformBytes(call.dst, call.msg, call.byteLength))

\* C23: PointG2.fromBytes reads the x-coordinate in the same component order
\* in both encodings: the x decoded from the uncompressed encoding of a
\* point equals the x decoded from the compressed encoding of that point.
C23_SameComponentOrder ==
    (/\ DecodeDone /\ call.op = "G2.fromBytes" /\ call.encoded
     /\ ~call.compressed /\ call.point # G2infinity /\ ret.kind = "ok"
     /\ G2fromBytes(G2encode(call.point, TRUE)).kind = "ok")
    => ret.val[1] = G2fromBytes(G2encode(call.point, TRUE)).val[1]

\* C28: fromBytes leaves the caller's buffer as it was passed, whether it
\* returns or throws, so that decoding the buffer again gives the same
\* point or the same error.
C28_BufferUnchanged ==
    DecodeDone
    => /\ buf = call.bytes
       /\ ret = (IF call.op = "G1.fromBytes" THEN G1fromBytes(buf) ELSE G2fromBytes(buf))

====
